---- MODULE Spec2Model ----
(***************************************************************************)
(* Model of the Gramps import command of malbat                            *)
(* (familytree/management/commands/import_gramps.py) with the parts of     *)
(* familytree/models.py and familytree/utils.py it touches.                *)
(*                                                                         *)
(* One import run is the sequence of stages of Command.handle; each stage  *)
(* is one action that folds over the parsed records exactly as the stage's *)
(* loop does, every database write committing on its own (autocommit).     *)
(***************************************************************************)
EXTENDS Integers, Sequences, FiniteSets, TLC

VARIABLES
    file,       \* the input file handed to handle(): its shape and the document it holds
    pc,         \* position of the run inside Command.handle
    err,        \* exception that ended the run ("" when none)
    mem,        \* the dictionaries _parse_xml returned, mutated in place by the stages
    db,         \* the relational store: one sequence of rows per model, pk = index
    db0,        \* history: the store when the current run started
    prev,       \* history: how the previous run ended and whether it read the same file
    disk,       \* files outside the managed folder: path -> [content, readable]
    imported,   \* MEDIA_ROOT/imported: filename -> content (0 = no such file)
    reported,   \* the success line written by handle(), counts per kind, or NoReport
    lm,         \* the Person instance has_local_modifications() is evaluated on
    saves,      \* history: the saves of the link stages in the current run
    dateval,    \* a dateval element handed to the date parser, and what it gave
    scratch,    \* the temporary directory of the run: "none", "removed", "left"
    batch,      \* the GrampsImport record: its saves and the runs they started
    runs        \* two runs at the child rows of one family: lists and positions

vars == <<file, pc, err, mem, db, db0, prev, disk, imported, reported, lm, saves,
          dateval, scratch, batch, runs>>

-----------------------------------------------------------------------------
(* Values *)

\* Python None for a missing attribute or element
None == "None"
\* a null foreign key, a null date
Null == 0

\* `not x` for an id attribute: missing or empty
Falsy(x) == x = None \/ x = ""

\* the set of elements of a sequence
Range(s) == {s[i] : i \in 1..Len(s)}

\* all sequences over S of length at most n
SeqsUpTo(S, n) == UNION {[1..k -> S] : k \in 0..n}

\* no element occurs twice in s
NoRepeat(s) == \A i, j \in 1..Len(s) : i # j => s[i] # s[j]

-----------------------------------------------------------------------------
(* Python dict: insertion-ordered list of [k, v]; assigning an existing    *)
(* key replaces the value and keeps the position.                          *)

RECURSIVE DictIndex(_, _, _)
DictIndex(d, k, i) ==
    IF i > Len(d) THEN 0
    ELSE IF d[i].k = k THEN i
    ELSE DictIndex(d, k, i + 1)

Has(d, k) == DictIndex(d, k, 1) # 0

Get(d, k) == d[DictIndex(d, k, 1)].v

Put(d, k, v) ==
    IF Has(d, k) THEN [d EXCEPT ![DictIndex(d, k, 1)].v = v]
    ELSE Append(d, [k |-> k, v |-> v])

-----------------------------------------------------------------------------
(* The store.  Rows are never deleted by the import except FamilyChild     *)
(* rows and person-media pairs, so a model's rows are a sequence in        *)
(* creation order and the primary key is the index.                        *)

EmptyDb ==
    [place  |-> <<>>, person |-> <<>>, family |-> <<>>, event |-> <<>>,
     note   |-> <<>>, media  |-> <<>>,
     child  |-> {},      \* FamilyChild rows [family, child, order]
     pmedia |-> {}]      \* Person.media pairs <<person pk, media pk>>

\* a point in time: an epoch second of a change attribute, the current time
\* while _parse_xml runs, the current time of a database write, or null
Instant(n) == [clock |-> "epoch", t |-> n]
ParseNow   == [clock |-> "parse", t |-> 0]
WriteNow   == [clock |-> "write", t |-> 0]
NoInstant  == [clock |-> "null",  t |-> 0]

\* field defaults of a new row (models.py)
BlankPlace  == [gid |-> None, name |-> "", lat |-> Null, lon |-> Null]
BlankPerson == [gid |-> None, first |-> "", birth |-> Null, death |-> Null,
                deceased |-> FALSE, gender |-> "U",
                gramps_last_updated |-> NoInstant]
BlankFamily == [gid |-> None, father |-> Null, mother |-> Null]
BlankEvent  == [gid |-> None, type |-> "", date |-> Null, place |-> Null,
                person |-> Null, family |-> Null]
BlankNote   == [gid |-> None, text |-> "", person |-> Null, family |-> Null,
                event |-> Null]
BlankMedia  == [gid |-> None,
                path |-> [abs |-> FALSE, dir |-> "",
                          name |-> [stem |-> "", n |-> 0, ext |-> ""]]]

RECURSIVE RowIndex(_, _, _)
RowIndex(rows, gid, i) ==
    IF i > Len(rows) THEN 0
    ELSE IF rows[i].gid = gid THEN i
    ELSE RowIndex(rows, gid, i + 1)

\* a row with the fields named in defaults overwritten
Merge(row, defaults) ==
    [f \in DOMAIN row |-> IF f \in DOMAIN defaults THEN defaults[f] ELSE row[f]]

\* a faulty variant, for comparison: an insert on every call, no lookup
UpdateOrCreate_AlwaysCreate(rows, gid, defaults, blank) ==
    [rows |-> Append(rows, Merge([blank EXCEPT !.gid = gid], defaults)),
     pk   |-> Len(rows) + 1]

\* a faulty variant, for comparison: the row found is written anew from the
\* field defaults, as a delete and insert under the same key would
UpdateOrCreate_Replace(rows, gid, defaults, blank) ==
    LET i   == RowIndex(rows, gid, 1)
        new == Merge([blank EXCEPT !.gid = gid], defaults)
    IN  IF i # 0 THEN [rows |-> [rows EXCEPT ![i] = new], pk |-> i]
        ELSE [rows |-> Append(rows, new), pk |-> Len(rows) + 1]

\* Model.objects.update_or_create(gramps_id=gid, defaults=defaults):
\* the row with that gramps_id gets the defaults, or a new row is inserted.
UpdateOrCreate(rows, gid, defaults, blank) ==
    LET i == RowIndex(rows, gid, 1) IN
    IF i # 0
    THEN [rows |-> [rows EXCEPT ![i] = Merge(rows[i], defaults)], pk |-> i]
    ELSE [rows |-> Append(rows, Merge([blank EXCEPT !.gid = gid], defaults)),
          pk   |-> Len(rows) + 1]

-----------------------------------------------------------------------------
(* The interchange document: per kind, the elements in document order.     *)

EmptyDoc ==
    [places |-> <<>>, people |-> <<>>, families |-> <<>>, events |-> <<>>,
     notes  |-> <<>>, media  |-> <<>>]

PlaceEl(h, id, name)  == [handle |-> h, id |-> id, name |-> name]
\* gender is the text of the gender element, change the change attribute;
\* a person element built here has neither
PersonEl(h, id, first, erefs, orefs, nrefs) ==
    [handle |-> h, id |-> id, first |-> first, gender |-> None, change |-> None,
     eventrefs |-> erefs, objrefs |-> orefs, noterefs |-> nrefs]
FamilyEl(h, id, father, mother, childrefs, nrefs) ==
    [handle |-> h, id |-> id, father |-> father, mother |-> mother,
     childrefs |-> childrefs, noterefs |-> nrefs]
EventEl(h, id, type, date, place, nrefs) ==
    [handle |-> h, id |-> id, type |-> type, date |-> date, place |-> place,
     noterefs |-> nrefs]
NoteEl(h, id, text)   == [handle |-> h, id |-> id, text |-> text]
MediaEl(h, id, src)   == [handle |-> h, id |-> id, src |-> src]

\* an entry of a parsed dictionary: obj is the pk of the model instance that
\* replaced the raw record (0 while the entry still holds the raw record)
Raw(el) == [obj |-> 0, el |-> el]

-----------------------------------------------------------------------------
(* The input file and _parse_xml.                                          *)
(*   exists : os.path.exists(file_path)                                    *)
(*   gz     : the file is a gzip stream                                    *)
(*   tar    : the (decompressed) content is a tar archive                  *)
(*   member : the archive's .gramps member: "none", or how it is stored,   *)
(*            "gz" (gzip-compressed, what Gramps writes) or "plain"        *)
(*   xml    : the document text is well-formed XML                         *)
(*   doc    : the elements the document text holds                         *)
(*   bundled: the image members of the archive, [name, content]            *)
(*   truncated: the gzip stream of an archive ends after the header of its *)
(*            first member, before its end-of-stream marker                *)

File(exists, gz, tar, member, xml, doc) ==
    [exists |-> exists, gz |-> gz, tar |-> tar, member |-> member,
     xml |-> xml, doc |-> doc, bundled |-> {}, truncated |-> FALSE]

\* a gzip-compressed interchange document, the format Gramps exports
GzDoc(doc) == File(TRUE, TRUE, FALSE, "none", TRUE, doc)

\* tarfile.open(fileobj=gzip.open(file_path)) succeeds: lines 99-100.  On a
\* file that is not gzip the first read raises BadGzipFile, on a gzip stream
\* that is not a tar archive tarfile raises ReadError; both are caught at
\* line 118 and the input is taken as the document itself.
IsArchive(f) == f.gz /\ f.tar

\* gramps_file_path after the archive loop (lines 93, 103-106)
GrampsFilePath(f) ==
    IF IsArchive(f) /\ f.member # "none" THEN "member" ELSE "file"

\* a faulty variant, for comparison: a failed read is swallowed and the elements the text holds
\* are handed on (a streaming parse that keeps what it has read)
ReadDocument_Swallow(f) ==
    [exc |-> "", doc |-> f.doc]

\* lines 123-133: gzip.open(..., 'rt') opens lazily and never fails on an
\* existing path, so the plain-text fallback at line 128 is never taken;
\* ET.parse then reads through the gzip reader.
ReadDocument(f) ==
    LET target   == GrampsFilePath(f)
        isGzip   == IF target = "member" THEN f.member = "gz" ELSE f.gz
        isXml    == IF target = "file" /\ f.tar THEN FALSE ELSE f.xml
    IN  IF ~isGzip THEN [exc |-> "BadGzipFile", doc |-> EmptyDoc]
        ELSE IF ~isXml THEN [exc |-> "ParseError", doc |-> EmptyDoc]
        ELSE [exc |-> "", doc |-> f.doc]

RECURSIVE DictOf(_, _, _)
\* a dictionary filled in document order; byId: keyed by the id attribute
\* (places, line 149), else by the handle attribute
DictOf(els, byId, i) ==
    IF i = 0 THEN <<>>
    ELSE Put(DictOf(els, byId, i - 1),
             IF byId THEN els[i].id ELSE els[i].handle, Raw(els[i]))

\* str.lower() on the type texts of the model
Lower(t) ==
    CASE t = "Birth" -> "birth"
      [] t = "BIRTH" -> "birth"
      [] t = "Death" -> "death"
      [] t = "Census" -> "census"
      [] t = "MARRIAGE" -> "marriage"
      [] t = "dIvOrCe" -> "divorce"
      [] t = "Baptism" -> "baptism"
      [] t = "BURIAL" -> "burial"
      [] t = "Birth " -> "birth "
      [] t = "BIRTHS" -> "births"
      [] OTHER -> t

\* keys of type_mapping (lines 244-251)
KnownTypes == {"birth", "death", "marriage", "divorce", "baptism", "burial"}

\* a faulty variant, for comparison: the text is looked up as it is written
EventType_AsWritten(text) ==
    IF text = None \/ text = "" THEN "unknown"
    ELSE IF text \in KnownTypes THEN text ELSE "unknown"

\* lines 240-252: the type element's text, lower-cased, through type_mapping
EventType(text) ==
    IF text = None \/ text = "" THEN "unknown"
    ELSE IF Lower(text) \in KnownTypes THEN Lower(text) ELSE "unknown"

\* a calendar date, and None for an event without date
Date(y, m, d) == [y |-> y, m |-> m, d |-> d]
NoDate        == [y |-> 0, m |-> 0, d |-> 0]

Digits == {"0", "1", "2", "3", "4", "5", "6", "7", "8", "9"}

\* str.isdigit() on a text of ASCII characters
IsDigit(t) == t # <<>> /\ \A i \in 1..Len(t) : t[i] \in Digits

DigitValue(c) ==
    CASE c = "0" -> 0 [] c = "1" -> 1 [] c = "2" -> 2 [] c = "3" -> 3
      [] c = "4" -> 4 [] c = "5" -> 5 [] c = "6" -> 6 [] c = "7" -> 7
      [] c = "8" -> 8 [] c = "9" -> 9

RECURSIVE ToInt(_)
\* int() on a text of digits
ToInt(t) ==
    IF t = <<>> THEN 0
    ELSE 10 * ToInt(SubSeq(t, 1, Len(t) - 1)) + DigitValue(t[Len(t)])

\* str.count of one character
Count(t, c) == Cardinality({i \in 1..Len(t) : t[i] = c})

IsLeap(y) == (y % 4 = 0 /\ y % 100 # 0) \/ y % 400 = 0

DaysIn(y, m) ==
    IF m = 2 THEN (IF IsLeap(y) THEN 29 ELSE 28)
    ELSE IF m \in {4, 6, 9, 11} THEN 30 ELSE 31

\* datetime.date(y, m, d): ValueError outside year 1..9999, month 1..12 and
\* the days of the month, caught at line 270 and turned into None
DateOrNone(y, m, d) ==
    IF y \in 1..9999 /\ m \in 1..12 /\ d \in 1..DaysIn(y, m)
    THEN Date(y, m, d) ELSE NoDate

\* date.fromisoformat on a text of 10 characters made of digits and dashes:
\* YYYY-MM-DD, anything else is a ValueError (caught, None)
FromIsoFormat(t) ==
    IF /\ t[5] = "-" /\ t[8] = "-"
       /\ IsDigit(SubSeq(t, 1, 4)) /\ IsDigit(SubSeq(t, 6, 7)) /\ IsDigit(SubSeq(t, 9, 10))
    THEN DateOrNone(ToInt(SubSeq(t, 1, 4)), ToInt(SubSeq(t, 6, 7)), ToInt(SubSeq(t, 9, 10)))
    ELSE NoDate

\* lines 264-266: the two parts of a text with one dash
YearMonth(year, month) ==
    IF IsDigit(year) /\ IsDigit(month) THEN DateOrNone(ToInt(year), ToInt(month), 1)
    ELSE NoDate

\* lines 254-271: event_date from the dateval element; present is whether
\* the event has one, t the characters of its val attribute
ParseDate(present, t) ==
    IF ~present \/ t = <<>> THEN NoDate
    ELSE IF Len(t) = 4 /\ IsDigit(t) THEN DateOrNone(ToInt(t), 1, 1)
    ELSE IF Len(t) = 7 /\ Count(t, "-") = 1
    THEN LET i == CHOOSE k \in 1..7 : t[k] = "-" IN
         YearMonth(SubSeq(t, 1, i - 1), SubSeq(t, i + 1, 7))
    ELSE IF Len(t) = 10 /\ Count(t, "-") = 2 THEN FromIsoFormat(t)
    ELSE NoDate

\* lines 288-294: event_data; the date of an event element of the model is
\* the day its dateval stands for (0 for none)
ParseEvent(el) == [el EXCEPT !.type = EventType(el.type)]

\* str.strip().upper() on the gender texts of the model
StripUpper(t) ==
    CASE t = "m" -> "M"
      [] t = "f" -> "F"
      [] t = " F " -> "F"
      [] t = "u" -> "U"
      [] t = "x" -> "X"
      [] t = "male" -> "MALE"
      [] t = " " -> ""
      [] OTHER -> t

\* lines 169-172: 'U' unless the gender element has a text
Gender(text) == IF Falsy(text) THEN "U" ELSE StripUpper(text)

\* line 181, datetime.fromtimestamp(int(change_time), tz=utc), on the change
\* texts of the model: int() takes digits with blanks around them and
\* raises ValueError on anything else, fromtimestamp raises ValueError for
\* a year after 9999 and OverflowError for a value outside time_t
FromTimestamp(text) ==
    CASE text = "1"   -> [exc |-> "", at |-> Instant(1)]
      [] text = " 1 " -> [exc |-> "", at |-> Instant(1)]
      [] text = "2"   -> [exc |-> "", at |-> Instant(2)]
      [] text = "999999999999" -> [exc |-> "ValueError", at |-> NoInstant]
      [] text = "99999999999999999999" -> [exc |-> "OverflowError", at |-> NoInstant]
      [] OTHER -> [exc |-> "ValueError", at |-> NoInstant]

\* lines 174-187: gramps_last_updated of a person element, or the exception
\* that the except clause (ValueError, TypeError) lets through
LastUpdated(text) ==
    IF Falsy(text) THEN [exc |-> "", at |-> ParseNow]
    ELSE LET r == FromTimestamp(text) IN
         IF r.exc \in {"ValueError", "TypeError"} THEN [exc |-> "", at |-> ParseNow]
         ELSE r

\* lines 212-218: person_data, with the reference lists kept beside it
ParsePerson(el) ==
    [handle |-> el.handle, id |-> el.id, first |-> el.first,
     gender |-> Gender(el.gender),
     gramps_last_updated |-> LastUpdated(el.change).at,
     eventrefs |-> el.eventrefs, objrefs |-> el.objrefs, noterefs |-> el.noterefs]

\* the exception a person element ends the parse with ("" when none)
PeopleExc(people) ==
    IF \E i \in 1..Len(people) : LastUpdated(people[i].change).exc # ""
    THEN LastUpdated(people[CHOOSE i \in 1..Len(people) :
                               LastUpdated(people[i].change).exc # ""].change).exc
    ELSE ""

EmptyMem ==
    [places |-> <<>>, people |-> <<>>, families |-> <<>>, events |-> <<>>,
     notes  |-> <<>>, media  |-> <<>>]

\* lines 135-306: the dictionaries returned by _parse_xml
ParsedDicts(doc) ==
    [places   |-> DictOf(doc.places,   TRUE,  Len(doc.places)),
     people   |-> DictOf([i \in 1..Len(doc.people) |-> ParsePerson(doc.people[i])],
                         FALSE, Len(doc.people)),
     families |-> DictOf(doc.families, FALSE, Len(doc.families)),
     events   |-> DictOf([i \in 1..Len(doc.events) |-> ParseEvent(doc.events[i])],
                         FALSE, Len(doc.events)),
     notes    |-> DictOf(doc.notes,    FALSE, Len(doc.notes)),
     media    |-> DictOf(doc.media,    FALSE, Len(doc.media))]

\* lines 98-120: tar.getmembers() reads the gzip stream to its end; on a
\* stream that ends early the reader raises EOFError, which is none of the
\* exceptions caught at line 118
ArchiveExc(f) == IF IsArchive(f) /\ f.truncated THEN "EOFError" ELSE ""

\* the temporary directory when _parse_xml returns or raises: made at line
\* 101 once the archive is open, removed by the finally clause of the
\* second try (lines 308-312), which an exception of the archive loop
\* never reaches
ScratchAfter(f) ==
    IF ~IsArchive(f) THEN "none"
    ELSE IF ArchiveExc(f) # "" THEN "left"
    ELSE "removed"

\* _parse_xml: the dictionaries, or the exception that escapes
ParseXml(f) ==
    LET r == ReadDocument(f) IN
    IF ArchiveExc(f) # "" THEN [exc |-> ArchiveExc(f), mem |-> EmptyMem]
    ELSE IF r.exc # "" THEN [exc |-> r.exc, mem |-> EmptyMem]
    ELSE IF PeopleExc(r.doc.people) # ""
    THEN [exc |-> PeopleExc(r.doc.people), mem |-> EmptyMem]
    ELSE [exc |-> "", mem |-> ParsedDicts(r.doc)]

-----------------------------------------------------------------------------
(* Entity reconciliation.  A stage returns the store and the dictionary it *)
(* rewrote, and the exception that ended it ("" when it ran to its end).   *)

RECURSIVE ImportPlacesFrom(_, _, _)
\* _import_places: the loop from the i-th value of places.values()
ImportPlacesFrom(d, places, i) ==
    IF i > Len(places) THEN [db |-> d, dict |-> places, exc |-> ""]
    ELSE LET data == places[i].v.el IN
         IF data.id = None
         THEN \* INSERT with gramps_id NULL: NOT NULL constraint
              [db |-> d, dict |-> places, exc |-> "IntegrityError"]
         ELSE LET r == UpdateOrCreate(d.place, data.id,
                                      [name |-> data.name], BlankPlace)
              IN  ImportPlacesFrom([d EXCEPT !.place = r.rows],
                                   Put(places, data.id, [obj |-> r.pk, el |-> data]),
                                   i + 1)

ImportPlaces(d, places) == ImportPlacesFrom(d, places, 1)

\* line 330: person_data['id'] or person_handle
PersonId(handle, el) == IF Falsy(el.id) THEN handle ELSE el.id

RECURSIVE ImportPeopleFrom(_, _, _)
\* _import_people: the loop from the i-th item of list(people.items())
ImportPeopleFrom(d, people, i) ==
    IF i > Len(people) THEN [db |-> d, dict |-> people, exc |-> ""]
    ELSE LET handle == people[i].k
             el     == people[i].v.el
             r      == UpdateOrCreate(d.person, PersonId(handle, el),
                                      [first  |-> el.first,
                                       gender |-> el.gender,
                                       gramps_last_updated |-> el.gramps_last_updated],
                                      BlankPerson)
         IN  ImportPeopleFrom([d EXCEPT !.person = r.rows],
                              Put(people, handle, [obj |-> r.pk, el |-> el]),
                              i + 1)

ImportPeople(d, people) == ImportPeopleFrom(d, people, 1)

\* people.get(hlink) for a father or mother element (lines 361-364)
ParentOf(people, hlink) ==
    IF hlink # None /\ Has(people, hlink) THEN Get(people, hlink).obj ELSE Null

\* a faulty variant, for comparison: the FamilyChild table is emptied
DeleteChildren_All(rows, fam) == {}

\* a faulty variant, for comparison: the old rows of the family are kept
DeleteChildren_Keep(rows, fam) == rows

\* line 382: FamilyChild.objects.filter(family=family).delete()
DeleteChildren(rows, fam) == {r \in rows : r.family # fam}

RECURSIVE CreateChildrenFrom(_, _, _, _, _)
\* lines 385-392: one FamilyChild per childref found in people, order = its
\* index in the childref list; unique_together (family, child) makes a
\* second row for the same child an IntegrityError
CreateChildrenFrom(rows, fam, refs, people, j) ==
    IF j > Len(refs) THEN [rows |-> rows, exc |-> ""]
    ELSE IF Has(people, refs[j])
         THEN LET c == Get(people, refs[j]).obj IN
              IF \E r \in rows : r.family = fam /\ r.child = c
              THEN [rows |-> rows, exc |-> "IntegrityError"]
              ELSE CreateChildrenFrom(
                      rows \cup {[family |-> fam, child |-> c, order |-> j - 1]},
                      fam, refs, people, j + 1)
         ELSE CreateChildrenFrom(rows, fam, refs, people, j + 1)

RECURSIVE ImportFamiliesFrom(_, _, _, _)
\* _import_families: the loop from the i-th item of families.items()
ImportFamiliesFrom(d, families, people, i) ==
    IF i > Len(families) THEN [db |-> d, dict |-> families, exc |-> ""]
    ELSE LET handle == families[i].k
             el     == families[i].v.el
         IN  IF Falsy(el.id)
             THEN ImportFamiliesFrom(d, families, people, i + 1)
             ELSE LET r  == UpdateOrCreate(d.family, el.id,
                                 [father |-> ParentOf(people, el.father),
                                  mother |-> ParentOf(people, el.mother)],
                                 BlankFamily)
                      cr == CreateChildrenFrom(DeleteChildren(d.child, r.pk),
                                               r.pk, el.childrefs, people, 1)
                      d2 == [d EXCEPT !.family = r.rows, !.child = cr.rows]
                      f2 == Put(families, handle, [obj |-> r.pk, el |-> el])
                  IN  IF cr.exc # ""
                      THEN [db |-> d2, dict |-> f2, exc |-> cr.exc]
                      ELSE ImportFamiliesFrom(d2, f2, people, i + 1)

ImportFamilies(d, families, people) == ImportFamiliesFrom(d, families, people, 1)

\* places.get(place_hlink) if place_hlink else None (line 404); the places
\* dictionary is keyed by the id attribute (line 149)
PlaceOf(places, hlink) ==
    IF hlink # None /\ Has(places, hlink) THEN Get(places, hlink).obj ELSE Null

RECURSIVE CreateEventsFrom(_, _, _, _, _)
\* _import_events, lines 399-424.  h2o is event_handle_to_obj: per handle
\* the Event instance, obj its pk and person the value the instance holds
CreateEventsFrom(d, events, h2o, places, i) ==
    IF i > Len(events) THEN [db |-> d, dict |-> events, h2o |-> h2o]
    ELSE LET handle == events[i].k
             el     == events[i].v.el
         IN  IF Falsy(el.id)
             THEN CreateEventsFrom(d, events, h2o, places, i + 1)
             ELSE LET r == UpdateOrCreate(d.event, el.id,
                                [type  |-> el.type, date |-> el.date,
                                 place |-> PlaceOf(places, el.place)],
                                BlankEvent)
                  IN  CreateEventsFrom(
                          [d EXCEPT !.event = r.rows],
                          Put(events, handle, [obj |-> r.pk, el |-> el]),
                          Put(h2o, handle,
                              [obj |-> r.pk, person |-> r.rows[r.pk].person]),
                          places, i + 1)

\* a save(update_fields=[field]) of the link stages: the row and the value
Save(kind, pk, field, value) ==
    [kind |-> kind, pk |-> pk, field |-> field, value |-> value]

RECURSIVE LinkEventRefs(_, _, _, _, _, _)
\* lines 430-436: the event refs of one person; sv collects the saves
LinkEventRefs(d, h2o, sv, person, refs, j) ==
    IF j > Len(refs) THEN [db |-> d, h2o |-> h2o, saves |-> sv]
    ELSE IF Has(h2o, refs[j]) /\ Get(h2o, refs[j]).person # person
         THEN LET ev == Get(h2o, refs[j]) IN
              LinkEventRefs([d EXCEPT !.event[ev.obj].person = person],
                            Put(h2o, refs[j], [ev EXCEPT !.person = person]),
                            sv \cup {Save("event", ev.obj, "person", person)},
                            person, refs, j + 1)
         ELSE LinkEventRefs(d, h2o, sv, person, refs, j + 1)

RECURSIVE LinkEventsFrom(_, _, _, _, _)
\* lines 427-436: people_event_refs.items(), filled with people (line 220)
LinkEventsFrom(d, h2o, sv, people, i) ==
    IF i > Len(people) THEN [db |-> d, saves |-> sv]
    ELSE LET r == LinkEventRefs(d, h2o, sv, people[i].v.obj,
                                people[i].v.el.eventrefs, 1)
         IN  LinkEventsFrom(r.db, r.h2o, r.saves, people, i + 1)

\* _import_events
ImportEvents(d, events, people, places) ==
    LET c == CreateEventsFrom(d, events, <<>>, places, 1)
        l == LinkEventsFrom(c.db, c.h2o, {}, people, 1)
    IN  [db |-> l.db, dict |-> c.dict, exc |-> "", saves |-> l.saves]

RECURSIVE ImportNotesFrom(_, _, _)
\* _import_notes; the entry of a reconciled note is the Note instance with
\* the person, family and event it was loaded with
ImportNotesFrom(d, notes, i) ==
    IF i > Len(notes) THEN [db |-> d, dict |-> notes, exc |-> ""]
    ELSE LET handle == notes[i].k
             el     == notes[i].v.el
         IN  IF Falsy(el.id)
             THEN ImportNotesFrom(d, notes, i + 1)
             ELSE LET r   == UpdateOrCreate(d.note, el.id, [text |-> el.text],
                                            BlankNote)
                      row == r.rows[r.pk]
                  IN  ImportNotesFrom(
                          [d EXCEPT !.note = r.rows],
                          Put(notes, handle,
                              [obj |-> r.pk, el |-> el, person |-> row.person,
                               family |-> row.family, event |-> row.event]),
                          i + 1)

ImportNotes(d, notes) == ImportNotesFrom(d, notes, 1)

RECURSIVE LinkNoteRefs(_, _, _, _, _, _, _)
\* the inner loops of _associate_notes (lines 645-650, 656-661, 667-672):
\* field is the Note field written, target the entry of the referring
\* person, family or event.  An entry that was skipped for want of an id
\* still holds the raw record: a raw note has no .person/.family/.event
\* (AttributeError), a raw family or event is not a model instance, so the
\* comparison is unequal and the assignment raises ValueError.
LinkNoteRefs(d, notes, sv, field, target, refs, j) ==
    IF j > Len(refs) THEN [db |-> d, dict |-> notes, exc |-> "", saves |-> sv]
    ELSE IF ~Has(notes, refs[j])
         THEN LinkNoteRefs(d, notes, sv, field, target, refs, j + 1)
         ELSE LET n == Get(notes, refs[j]) IN
              IF n.obj = 0
              THEN [db |-> d, dict |-> notes, exc |-> "AttributeError", saves |-> sv]
              ELSE IF target.obj = 0
              THEN [db |-> d, dict |-> notes, exc |-> "ValueError", saves |-> sv]
              ELSE IF n[field] # target.obj
              THEN LinkNoteRefs(
                      [d EXCEPT !.note[n.obj] = [@ EXCEPT ![field] = target.obj]],
                      Put(notes, refs[j], [n EXCEPT ![field] = target.obj]),
                      sv \cup {Save("note", n.obj, field, target.obj)},
                      field, target, refs, j + 1)
              ELSE LinkNoteRefs(d, notes, sv, field, target, refs, j + 1)

RECURSIVE LinkNotesFrom(_, _, _, _, _, _)
\* one of the three outer loops of _associate_notes over the referring
\* dictionary owners
LinkNotesFrom(d, notes, sv, field, owners, i) ==
    IF i > Len(owners) THEN [db |-> d, dict |-> notes, exc |-> "", saves |-> sv]
    ELSE LET r == LinkNoteRefs(d, notes, sv, field, owners[i].v,
                               owners[i].v.el.noterefs, 1)
         IN  IF r.exc # "" THEN r
             ELSE LinkNotesFrom(r.db, r.dict, r.saves, field, owners, i + 1)

\* _associate_notes: persons, then families, then events
AssociateNotes(d, m) ==
    LET a == LinkNotesFrom(d, m.notes, {}, "person", m.people, 1) IN
    IF a.exc # "" THEN a
    ELSE LET b == LinkNotesFrom(a.db, a.dict, a.saves, "family", m.families, 1) IN
         IF b.exc # "" THEN b
         ELSE LinkNotesFrom(b.db, b.dict, b.saves, "event", m.events, 1)

-----------------------------------------------------------------------------
(* Media files.  A path is [abs, dir, name]; a file name is [stem, n, ext], *)
(* n > 0 standing for the "_n" inserted before the extension.               *)

FileName(stem) == [stem |-> stem, n |-> 0, ext |-> ".jpg"]
NoFileName     == [stem |-> "", n |-> 0, ext |-> ""]
AbsPath(dir, stem) == [abs |-> TRUE,  dir |-> dir, name |-> FileName(stem)]
RelPath(dir, stem) == [abs |-> FALSE, dir |-> dir, name |-> FileName(stem)]

\* the src of a media object that has no file element
NoFile == [nofile |-> TRUE]

\* file_path = '' when the object has no file element (line 483)
EmptyPath == [abs |-> FALSE, dir |-> "", name |-> NoFileName]

\* os.path.basename (line 490)
Basename(p) == p.name

\* f'imported/{filename}' (lines 498, 522)
ImportedPath(fn) == [abs |-> FALSE, dir |-> "imported", name |-> fn]

\* utils.normalize_gramps_media_path on a POSIX path without backslashes:
\* an absolute path is reduced to its file name, a relative one is kept
NormalizeGrampsMediaPath(p) ==
    IF p.abs THEN [abs |-> FALSE, dir |-> "", name |-> p.name] ELSE p

\* possible_sources (lines 502-506): the recorded path, BASE_DIR/media and
\* the directory of the imported file
PossibleSources(src) ==
    << src,
       [abs |-> TRUE, dir |-> "BASE_DIR/media", name |-> Basename(src)],
       [abs |-> TRUE, dir |-> "FILE_DIR", name |-> Basename(src)] >>

\* os.path.isfile / Path.exists on the two file stores
IsFile(dk, p)   == \E f \in dk : f.path = p
FileAt(dk, p)   == CHOOSE f \in dk : f.path = p
Exists(imp, fn) == \E f \in imp : f.name = fn

RECURSIVE FreeName(_, _, _, _)
\* lines 513-519: the first of filename, name_1.ext, name_2.ext, ... that is
\* not in the imported folder
FreeName(imp, fn, stem, counter) ==
    IF ~Exists(imp, fn) THEN fn
    ELSE FreeName(imp, [fn EXCEPT !.stem = stem, !.n = counter], stem, counter + 1)

RECURSIVE CopyFrom(_, _, _, _)
\* lines 508-532: the first possible source that is a file and can be
\* copied; shutil.copy2 on an unreadable source raises before the
\* destination is opened, the exception is caught and the next source tried;
\* with no source copied the recorded path is stored as it is (line 531)
CopyFrom(dk, imp, src, k) ==
    LET sources == PossibleSources(src)
        fn      == Basename(src)
    IN  IF k > Len(sources) THEN [imp |-> imp, path |-> src]
        ELSE IF IsFile(dk, sources[k]) /\ FileAt(dk, sources[k]).readable
             THEN LET final == FreeName(imp, fn, fn.stem, 1) IN
                  [imp  |-> imp \cup {[name    |-> final,
                                       content |-> FileAt(dk, sources[k]).content]},
                   path |-> ImportedPath(final)]
             ELSE CopyFrom(dk, imp, src, k + 1)

\* lines 480-534: the stored file_path of one media object and the imported
\* folder after it
ResolveMedia(dk, imp, src) ==
    IF src = NoFile THEN [imp |-> imp, path |-> EmptyPath]
    ELSE IF Exists(imp, Basename(src))
         THEN [imp |-> imp, path |-> ImportedPath(Basename(src))]
         ELSE CopyFrom(dk, imp, src, 1)

RECURSIVE CreateMediaFrom(_, _, _, _, _, _)
\* _import_media, lines 474-553; h2o is media_handle_to_obj
CreateMediaFrom(d, dk, imp, media, h2o, i) ==
    IF i > Len(media) THEN [db |-> d, imp |-> imp, h2o |-> h2o]
    ELSE LET handle == media[i].k
             el     == media[i].v.el
         IN  IF Falsy(el.id)
             THEN CreateMediaFrom(d, dk, imp, media, h2o, i + 1)
             ELSE LET m == ResolveMedia(dk, imp, el.src)
                      r == UpdateOrCreate(d.media, el.id, [path |-> m.path],
                                          BlankMedia)
                  IN  CreateMediaFrom([d EXCEPT !.media = r.rows], dk, m.imp,
                                      media, Put(h2o, handle, r.pk), i + 1)

\* lines 562-565: person_obj.media.add for every obj ref found
AddedMedia(person, refs, h2o) ==
    {<<person, Get(h2o, refs[j])>> : j \in {k \in 1..Len(refs) : Has(h2o, refs[k])}}

RECURSIVE LinkMediaFrom(_, _, _, _)
\* lines 556-565: people_obj_refs.items(); a person with obj refs has its
\* media set cleared and refilled
LinkMediaFrom(pm, h2o, people, i) ==
    IF i > Len(people) THEN pm
    ELSE LET person == people[i].v.obj
             refs   == people[i].v.el.objrefs
         IN  IF refs # <<>>
             THEN LinkMediaFrom({x \in pm : x[1] # person}
                                   \cup AddedMedia(person, refs, h2o),
                                h2o, people, i + 1)
             ELSE LinkMediaFrom(pm, h2o, people, i + 1)

\* _import_media
ImportMedia(d, dk, imp, media, people) ==
    LET c == CreateMediaFrom(d, dk, imp, media, <<>>, 1) IN
    [db  |-> [c.db EXCEPT !.pmedia = LinkMediaFrom(c.db.pmedia, c.h2o, people, 1)],
     imp |-> c.imp, exc |-> ""]

-----------------------------------------------------------------------------
(* Derived fields *)

\* line 698: updated_people.add(event.person.id)
MarkUpdated(updated, person) == updated \cup {person}

\* lines 684-694: the person after one event, from the person as loaded
AfterEvent(p, ev) ==
    IF ev.type = "birth" /\ ev.date # Null
    THEN [p EXCEPT !.birth = ev.date]
    ELSE IF ev.type = "death"
    THEN [p EXCEPT !.death = IF ev.date # Null THEN ev.date ELSE @,
                   !.deceased = TRUE]
    ELSE p

RECURSIVE UpdateDatesFrom(_, _, _)
\* _update_dates: Event.objects.all() has no ordering, the rows come in
\* primary-key order; a person saved once is skipped for the rest of the run
UpdateDatesFrom(d, updated, i) ==
    IF i > Len(d.event) THEN d
    ELSE LET ev == d.event[i] IN
         IF ev.person = Null \/ ev.person \in updated
         THEN UpdateDatesFrom(d, updated, i + 1)
         ELSE LET p  == d.person[ev.person]
                  p2 == AfterEvent(p, ev)
              IN  IF p2 # p
                  THEN UpdateDatesFrom([d EXCEPT !.person[ev.person] = p2],
                                       MarkUpdated(updated, ev.person), i + 1)
                  ELSE UpdateDatesFrom(d, updated, i + 1)

UpdateDates(d) == UpdateDatesFrom(d, {}, 1)

-----------------------------------------------------------------------------
(* Command.handle, one action per stage *)

NoReport == [said |-> FALSE]
NoBatch  == [created |-> FALSE, hasFile |-> FALSE, saves |-> 0, calls |-> 0]
NoDateval == [present |-> FALSE, val |-> <<>>, parsed |-> FALSE, date |-> NoDate]
NoLm     == [updated_at |-> -1, gramps_last_updated |-> -1, result |-> "unset"]

Raise(exc) == pc' = "raised" /\ err' = exc

\* lines 27-30
HandleStart ==
    /\ pc = "start"
    /\ IF ~file.exists THEN Raise("CommandError")
       ELSE pc' = "parse" /\ err' = err
    /\ UNCHANGED <<file, mem, db, db0, prev, disk, imported, reported, lm, saves, dateval, scratch, batch, runs>>

\* lines 107-117: the image members of an archive are copied to
\* BASE_DIR/media under their base name, replacing a file of that name
ExtractBundled(dk, f) ==
    IF ~IsArchive(f) THEN dk
    ELSE {x \in dk : ~\E b \in f.bundled :
                        x.path = [abs |-> TRUE, dir |-> "BASE_DIR/media", name |-> b.name]}
         \cup {[path     |-> [abs |-> TRUE, dir |-> "BASE_DIR/media", name |-> b.name],
                content  |-> b.content,
                readable |-> TRUE] : b \in f.bundled}

\* line 50
ParseStep ==
    /\ pc = "parse"
    /\ disk' = ExtractBundled(disk, file)
    /\ LET r == ParseXml(file) IN
       IF r.exc # "" THEN Raise(r.exc) /\ mem' = mem
       ELSE mem' = r.mem /\ pc' = "places" /\ err' = err
    /\ scratch' = ScratchAfter(file)
    /\ UNCHANGED <<file, db, db0, prev, imported, reported, lm, saves, dateval, batch, runs>>

\* a faulty variant, for comparison: the families are imported before the
\* people
StageEnd_FamiliesFirst(r, next) ==
    /\ db' = r.db
    /\ IF r.exc # "" THEN Raise(r.exc)
       ELSE /\ pc' = CASE next = "people"   -> "families"
                        [] next = "events"   -> "people"
                        [] next = "families" -> "events"
                        [] OTHER -> next
            /\ err' = err

\* the end of a stage: on to the next stage, or the exception escapes handle
StageEnd(r, next) ==
    /\ db' = r.db
    /\ IF r.exc # "" THEN Raise(r.exc) ELSE pc' = next /\ err' = err

\* lines 53-54
PlacesStep ==
    /\ pc = "places"
    /\ LET r == ImportPlaces(db, mem.places) IN
       StageEnd(r, "people") /\ mem' = [mem EXCEPT !.places = r.dict]
    /\ UNCHANGED <<file, db0, prev, disk, imported, reported, lm, saves, dateval, scratch, batch, runs>>

\* lines 56-57
PeopleStep ==
    /\ pc = "people"
    /\ LET r == ImportPeople(db, mem.people) IN
       StageEnd(r, "families") /\ mem' = [mem EXCEPT !.people = r.dict]
    /\ UNCHANGED <<file, db0, prev, disk, imported, reported, lm, saves, dateval, scratch, batch, runs>>

\* lines 59-60
FamiliesStep ==
    /\ pc = "families"
    /\ LET r == ImportFamilies(db, mem.families, mem.people) IN
       StageEnd(r, "events") /\ mem' = [mem EXCEPT !.families = r.dict]
    /\ UNCHANGED <<file, db0, prev, disk, imported, reported, lm, saves, dateval, scratch, batch, runs>>

\* lines 62-63
EventsStep ==
    /\ pc = "events"
    /\ LET r == ImportEvents(db, mem.events, mem.people, mem.places) IN
       /\ StageEnd(r, "notes") /\ mem' = [mem EXCEPT !.events = r.dict]
       /\ saves' = saves \cup r.saves
    /\ UNCHANGED <<file, db0, prev, disk, imported, reported, lm, dateval, scratch, batch, runs>>

\* lines 65-66
NotesStep ==
    /\ pc = "notes"
    /\ LET r == ImportNotes(db, mem.notes) IN
       StageEnd(r, "associate") /\ mem' = [mem EXCEPT !.notes = r.dict]
    /\ UNCHANGED <<file, db0, prev, disk, imported, reported, lm, saves, dateval, scratch, batch, runs>>

\* lines 68-69
AssociateStep ==
    /\ pc = "associate"
    /\ LET r == AssociateNotes(db, mem) IN
       /\ StageEnd(r, "media") /\ mem' = [mem EXCEPT !.notes = r.dict]
       /\ saves' = saves \cup r.saves
    /\ UNCHANGED <<file, db0, prev, disk, imported, reported, lm, dateval, scratch, batch, runs>>

\* lines 71-72
MediaStep ==
    /\ pc = "media"
    /\ LET r == ImportMedia(db, disk, imported, mem.media, mem.people) IN
       StageEnd(r, "dates") /\ imported' = r.imp
    /\ UNCHANGED <<file, mem, db0, prev, disk, reported, lm, saves, dateval, scratch, batch, runs>>

\* lines 74-75
DatesStep ==
    /\ pc = "dates"
    /\ db' = UpdateDates(db)
    /\ pc' = "report"
    /\ UNCHANGED <<file, err, mem, db0, prev, disk, imported, reported, lm, saves, dateval, scratch, batch, runs>>

\* lines 82-87 (the import_media option is not set: lines 78-80 are skipped)
ReportStep ==
    /\ pc = "report"
    /\ reported' = [said     |-> TRUE,
                    people   |-> Len(mem.people),   families |-> Len(mem.families),
                    events   |-> Len(mem.events),   places   |-> Len(mem.places),
                    notes    |-> Len(mem.notes),    media    |-> Len(mem.media)]
    /\ pc' = "done"
    /\ UNCHANGED <<file, err, mem, db, db0, prev, disk, imported, lm, saves, dateval, scratch, batch, runs>>

Run ==
    \/ HandleStart \/ ParseStep \/ PlacesStep \/ PeopleStep \/ FamiliesStep
    \/ EventsStep \/ NotesStep \/ AssociateStep \/ MediaStep \/ DatesStep
    \/ ReportStep

\* the command is run again, on a file of F
RerunOn(F) ==
    /\ pc \in {"done", "raised"}
    /\ \E f \in F :
          /\ file' = f
          /\ prev' = [pc |-> pc, same |-> (f = file)]
    /\ pc' = "start"
    /\ err' = ""
    /\ mem' = EmptyMem
    /\ db0' = db
    /\ reported' = NoReport
    /\ saves' = {}
    /\ scratch' = "none"
    /\ UNCHANGED <<db, disk, imported, lm, dateval, batch, runs>>

\* the command is run again on the same file
RerunSame == RerunOn({file})

\* the state before the first run: an empty store, the files dk outside and
\* imp inside the managed folder
InitRun(F, dk, imp) ==
    /\ file \in F
    /\ pc = "start"
    /\ err = ""
    /\ mem = EmptyMem
    /\ db = EmptyDb
    /\ db0 = EmptyDb
    /\ prev = [pc |-> "none", same |-> FALSE]
    /\ disk = dk
    /\ imported = imp
    /\ reported = NoReport
    /\ lm = NoLm
    /\ saves = {}
    /\ dateval = NoDateval
    /\ scratch = "none"
    /\ batch = NoBatch /\ runs = <<>>

\* rows of one family in the store
ChildRows(d, fam) == {r \in d.child : r.family = fam}

-----------------------------------------------------------------------------
(* Families and child order *)

MaxChildren == 2

ThreePeople ==
    << PersonEl("h1", "I1", "Ann", <<>>, <<>>, <<>>),
       PersonEl("h2", "I2", "Bob", <<>>, <<>>, <<>>),
       PersonEl("h3", "I3", "Cyd", <<>>, <<>>, <<>>) >>

\* three people and one family whose childref list is any list of at most
\* MaxChildren handles, "hx" being the handle of no person
FamilyDocs ==
    { [EmptyDoc EXCEPT
          !.people   = ThreePeople,
          !.families = << FamilyEl("f1", "F1", "h1", None, refs, <<>>) >>]
      : refs \in SeqsUpTo({"h1", "h2", "h3", "hx"}, MaxChildren) }

FamilyFiles == {GzDoc(doc) : doc \in FamilyDocs}

InitFamily == InitRun(FamilyFiles, {}, {})
NextFamily == Run \/ RerunOn(FamilyFiles)
SpecFamily == InitFamily /\ [][NextFamily]_vars

\* the families stage of the current run has run to its end
FamiliesReconciled ==
    pc \in {"events", "notes", "associate", "media", "dates", "report", "done"}

\* the person element with handle h, and the pk of the row it reconciles to
HasPerson(doc, h) == \E i \in 1..Len(doc.people) : doc.people[i].handle = h
PersonPk(doc, h) ==
    LET i == CHOOSE k \in 1..Len(doc.people) : doc.people[k].handle = h
    IN  RowIndex(db.person, doc.people[i].id, 1)

\* the childrefs of el that name a person of the document
Found(doc, el) == {j \in 1..Len(el.childrefs) : HasPerson(doc, el.childrefs[j])}

\* C3: once a family with an external id is reconciled, its FamilyChild rows
\* are the childrefs found among the people, one row per child, each row's
\* order the child's position in the source list (so 0..n-1 when every child
\* is found), and nothing else: no row of an earlier import remains.
C3_ChildOrderReplaced ==
    FamiliesReconciled =>
        \A i \in 1..Len(file.doc.families) :
            LET el   == file.doc.families[i]
                fam  == RowIndex(db.family, el.id, 1)
                rows == ChildRows(db, fam)
            IN  /\ fam # 0
                /\ {r.child : r \in rows}
                     = {PersonPk(file.doc, el.childrefs[j]) : j \in Found(file.doc, el)}
                /\ Cardinality(rows) = Cardinality({r.child : r \in rows})
                /\ \A r \in rows :
                      /\ r.order + 1 \in Found(file.doc, el)
                      /\ PersonPk(file.doc, el.childrefs[r.order + 1]) = r.child
                /\ Found(file.doc, el) = 1..Len(el.childrefs)
                     => {r.order : r \in rows} = 0..(Len(el.childrefs) - 1)

\* a family re-imported with its two children in the opposite order
C3_Witness ==
    /\ pc = "done"
    /\ prev.pc = "done"
    /\ file.doc.families[1].childrefs = <<"h2", "h1">>
    /\ [family |-> 1, child |-> 1, order |-> 0] \in db0.child
    /\ [family |-> 1, child |-> 2, order |-> 1] \in db0.child
    /\ [family |-> 1, child |-> 2, order |-> 0] \in db.child

-----------------------------------------------------------------------------
(* Re-import of one document: events, their persons and the derived dates  *)

MaxDate == 2

\* two people and two events: each event a birth, a death or something else,
\* dated or not; the first person refers to any of the events, the second
\* to none or to the second event
DateDocs ==
    { [EmptyDoc EXCEPT
          !.people = << PersonEl("h1", "I1", "Ann", r1, <<>>, <<>>),
                        PersonEl("h2", "I2", "Bob", r2, <<>>, <<>>) >>,
          !.events = << EventEl("e1", "E1", t1, d1, None, <<>>),
                        EventEl("e2", "E2", t2, d2, None, <<>>) >>]
      : r1 \in {r \in SeqsUpTo({"e1", "e2"}, 2) : NoRepeat(r)},
        r2 \in {<<>>, <<"e2">>},
        t1 \in {"Birth", "death"}, t2 \in {"Birth", "death", "Census"},
        d1 \in 0..MaxDate, d2 \in 0..MaxDate }

DateFiles == {GzDoc(doc) : doc \in DateDocs}

InitDates == InitRun(DateFiles, {}, {})
NextDates == Run \/ RerunSame
SpecDates == InitDates /\ [][NextDates]_vars

\* the command keeps being run: whenever a run has ended, another one starts
FairDates == SpecDates /\ WF_vars(RerunSame)

\* two complete runs in a row over the same file
SecondRunDone == pc = "done" /\ prev.pc = "done" /\ prev.same

\* C1: importing a document a second time, with no write in between, leaves
\* every row and every field as the first import left them.
C1_Idempotent == SecondRunDone => db = db0

\* C2: re-importing one document over and over, from some run on no run
\* changes the store any more.
C2_Converges == <>[](SecondRunDone => db = db0)

-----------------------------------------------------------------------------
(* Records without an external id *)

\* one record of each kind, each with or without its id attribute; the
\* person, the family and the event may refer to the note
IdDocs ==
    { [places   |-> << PlaceEl("pl", pid, "Paris") >>,
       people   |-> << PersonEl("h1", iid, "Ann", <<>>, <<>>, pn) >>,
       families |-> << FamilyEl("f1", fid, "h1", None, <<"h1">>, fn) >>,
       events   |-> << EventEl("e1", eid, "Birth", 1, None, en) >>,
       notes    |-> << NoteEl("n1", nid, "text") >>,
       media    |-> << MediaEl("m1", mid, NoFile) >>]
      : pid \in {"P1", None}, iid \in {"I1", None}, fid \in {"F1", None},
        eid \in {"E1", None}, nid \in {"N1", None}, mid \in {"M1", None},
        pn \in {<<>>, <<"n1">>}, fn \in {<<>>, <<"n1">>}, en \in {<<>>, <<"n1">>} }

IdFiles == {GzDoc(doc) : doc \in IdDocs}

InitIds == InitRun(IdFiles, {}, {})
NextIds == Run \/ RerunSame
SpecIds == InitIds /\ [][NextIds]_vars

\* the ids the elements of one kind carry
IdsOf(els) == {els[i].id : i \in 1..Len(els)} \ {None}
GidsOf(rows) == {rows[i].gid : i \in 1..Len(rows)}

\* C6: a record without an external id is skipped, whatever its kind: the
\* run goes on to its end and the store holds rows for the records that
\* carry an id and for no other.
C6_NoIdSkipped ==
    /\ pc # "raised"
    /\ pc = "done" =>
         /\ GidsOf(db.place)  = IdsOf(file.doc.places)
         /\ GidsOf(db.person) = IdsOf(file.doc.people)
         /\ GidsOf(db.family) = IdsOf(file.doc.families)
         /\ GidsOf(db.event)  = IdsOf(file.doc.events)
         /\ GidsOf(db.note)   = IdsOf(file.doc.notes)
         /\ GidsOf(db.media)  = IdsOf(file.doc.media)

-----------------------------------------------------------------------------
(* Dangling references *)

\* every record has its id; each link names a record of the document or
\* nothing: "hx", "ex", "mx", "nx", "px" are handles of no record, and "P1"
\* is the handle of no record either (it is the id of the place)
RefDocs ==
    { [places   |-> << PlaceEl("pl", "P1", "Paris") >>,
       people   |-> << PersonEl("h1", "I1", "Ann", er, orf, pn) >>,
       families |-> << FamilyEl("f1", "F1", fa, None, cr, fn) >>,
       events   |-> << EventEl("e1", "E1", "Birth", 1, pl, en) >>,
       notes    |-> << NoteEl("n1", "N1", "text") >>,
       media    |-> << MediaEl("m1", "M1", NoFile) >>]
      : er  \in {<<>>, <<"e1">>, <<"ex">>},
        orf \in {<<>>, <<"m1">>, <<"mx">>},
        pn  \in {<<>>, <<"n1">>, <<"nx">>},
        fa  \in {None, "h1", "hx"},
        cr  \in {<<>>, <<"h1">>, <<"hx">>, <<"hx", "h1">>},
        fn  \in {<<>>, <<"nx">>},
        pl  \in {None, "pl", "px", "P1"},
        en  \in {<<>>, <<"nx">>} }

RefFiles == {GzDoc(doc) : doc \in RefDocs}

InitRefs == InitRun(RefFiles, {}, {})
NextRefs == Run \/ RerunSame
SpecRefs == InitRefs /\ [][NextRefs]_vars

HandlesOf(els) == {els[i].handle : i \in 1..Len(els)}

\* C7: a link to a handle that no record of the document has never ends the
\* run; the family gets a null parent, the child gets no row, the event
\* gets a null place, and an event, media or note link is not applied.
C7_DanglingHarmless ==
    LET doc == file.doc
        fam == doc.families[1]
        ev  == doc.events[1]
        per == doc.people[1]
    IN  /\ pc # "raised"
        /\ pc = "done" =>
             /\ fam.father \notin HandlesOf(doc.people) => db.family[1].father = Null
             /\ Cardinality(db.child)
                  = Cardinality(Range(fam.childrefs) \cap HandlesOf(doc.people))
             /\ ev.place \notin HandlesOf(doc.places) => db.event[1].place = Null
             /\ Range(per.eventrefs) \cap HandlesOf(doc.events) = {}
                  => db.event[1].person = Null
             /\ Range(per.objrefs) \cap HandlesOf(doc.media) = {} => db.pmedia = {}
             /\ Range(per.noterefs) \cap HandlesOf(doc.notes) = {}
                  => db.note[1].person = Null
             /\ db.note[1].family = Null
             /\ db.note[1].event = Null

-----------------------------------------------------------------------------
(* Input formats and fatal errors *)

OnePersonDoc(id, first) ==
    [EmptyDoc EXCEPT !.people = << PersonEl("h1", id, first, <<>>, <<>>, <<>>) >>]

\* two documents that differ, so that a run over one changes what a run over
\* the other left
FormatDocs ==
    { OnePersonDoc("I1", "Ann"),
      [OnePersonDoc("I1", "Anna") EXCEPT !.places = << PlaceEl("pl", "P1", "Paris") >>] }

OnePhoto == {[name |-> FileName("photo"), content |-> 1]}

\* every shape of input: a missing file; a plain or gzip file holding text
\* that is a well-formed document or not; a plain or gzip-compressed tar
\* archive with a .gramps member stored compressed or plain, or with none,
\* with or without an image member
FormatFiles ==
    { File(FALSE, FALSE, FALSE, "none", FALSE, EmptyDoc) }
    \cup { File(TRUE, gz, FALSE, "none", xml, doc)
           : gz \in BOOLEAN, xml \in BOOLEAN, doc \in FormatDocs }
    \cup { [File(TRUE, gz, TRUE, member, xml, doc) EXCEPT !.bundled = b]
           : gz \in BOOLEAN, member \in {"none", "gz", "plain"},
             xml \in BOOLEAN, doc \in FormatDocs, b \in {{}, OnePhoto} }

InitFormats == InitRun(FormatFiles, {}, {})
NextFormats == Run \/ RerunOn(FormatFiles)
SpecFormats == InitFormats /\ [][NextFormats]_vars

\* the three input shapes, holding a well-formed document
WellFormedInput(f) ==
    /\ f.exists /\ f.xml
    /\ \/ f.gz /\ f.tar /\ f.member # "none"    \* compressed archive with a document
       \/ f.gz /\ ~f.tar                        \* compressed document
       \/ ~f.gz /\ ~f.tar                       \* plain-text document

\* C5: each of the three shapes of a well-formed input is parsed to the
\* records of its document, and no format-detection failure leaves
\* _parse_xml as an exception.
C5_FormatFallback ==
    WellFormedInput(file) =>
        /\ err \notin {"BadGzipFile", "ReadError"}
        /\ pc \notin {"start", "parse"} =>
              /\ pc # "raised"
              /\ Len(mem.people) = Len(file.doc.people)
              /\ Len(mem.places) = Len(file.doc.places)

\* the input is missing or holds no document that can be parsed
Fatal(f) == ~f.exists \/ ~f.xml \/ (f.gz /\ f.tar /\ f.member = "none")

\* exceptions of handle() before the first reconciliation stage
BeforeReconciliation == {"CommandError", "BadGzipFile", "ParseError"}

\* C8: a missing input file or a document that cannot be parsed makes the
\* run raise before any reconciliation: the store is as the run found it
\* and no success line is written.
C8_FatalLeavesStore ==
    /\ Fatal(file) /\ pc \notin {"start", "parse"} =>
          pc = "raised" /\ err \in BeforeReconciliation
    /\ pc = "raised" /\ err \in BeforeReconciliation =>
          db = db0 /\ reported = NoReport

\* an archive without a document, given after a run that filled the store
C8_Witness ==
    /\ pc = "raised"
    /\ err = "ParseError"
    /\ file.gz /\ file.tar /\ file.member = "none"
    /\ prev.pc = "done"
    /\ db.person # <<>>
    /\ file.doc.people[1].first # db.person[1].first

-----------------------------------------------------------------------------
(* Media files *)

\* the files of the model outside the managed folder; content names the file
SomeFiles ==
    { [path |-> AbsPath("/a", "photo"),   content |-> 1],
      [path |-> AbsPath("/b", "photo"),   content |-> 2],
      [path |-> RelPath("pics", "photo"), content |-> 3],
      [path |-> AbsPath("BASE_DIR/media", "photo"), content |-> 4] }

\* each of them missing, readable or unreadable
Disks ==
    { {[path |-> f.path, content |-> f.content, readable |-> f \in ok] : f \in here}
      : here \in SUBSET SomeFiles, ok \in SUBSET SomeFiles }

\* a photo.jpg already in the managed folder, or none
Folders == { {}, {[name |-> FileName("photo"), content |-> 9]} }

\* two media objects and a person that refers to the first or to both
MediaDocs ==
    { [EmptyDoc EXCEPT
          !.people = << PersonEl("h1", "I1", "Ann", <<>>, orf, <<>>) >>,
          !.media  = << MediaEl("m1", "M1", s1), MediaEl("m2", "M2", s2) >>]
      : s1  \in {AbsPath("/a", "photo"), RelPath("pics", "photo")},
        s2  \in {AbsPath("/b", "photo"), AbsPath("/a", "photo"), AbsPath("/a", "scan")},
        orf \in {<<"m1">>, <<"m1", "m2">>} }

MediaFiles == {GzDoc(doc) : doc \in MediaDocs}

InitMedia ==
    \E dk \in {d \in Disks : \A f \in d : f.readable \/ f.path.dir # "BASE_DIR/media"},
       imp \in Folders : InitRun(MediaFiles, dk, imp)
NextMedia == Run \/ RerunSame
SpecMedia == InitMedia /\ [][NextMedia]_vars

\* no possible source of src can be copied and the folder has no file of
\* that name
NotFound(src) ==
    /\ src # NoFile
    /\ ~Exists(imported, Basename(src))
    /\ \A k \in 1..Len(PossibleSources(src)) :
          ~IsFile(disk, PossibleSources(src)[k])
             \/ ~FileAt(disk, PossibleSources(src)[k]).readable

MediaRow(el) == db.media[RowIndex(db.media, el.id, 1)]

\* C9: a media object whose file is found nowhere, or cannot be copied from
\* anywhere, still gets its row, the stored path is the normalized source
\* path, and the run ends with its success line.
C9_MediaFallback ==
    /\ pc # "raised"
    /\ pc = "done" =>
         \A i \in 1..Len(file.doc.media) :
            LET el == file.doc.media[i] IN
            NotFound(el.src) =>
               /\ RowIndex(db.media, el.id, 1) # 0
               /\ MediaRow(el).path = NormalizeGrampsMediaPath(el.src)

\* the recorded path of el is a readable file
SourceOnDisk(el) ==
    el.src # NoFile /\ IsFile(disk, el.src) /\ FileAt(disk, el.src).readable

\* the content of the file in the managed folder that a stored path names
\* (0: the path names no file there)
ContentAt(path) ==
    IF path.dir = "imported" /\ Exists(imported, path.name)
    THEN (CHOOSE f \in imported : f.name = path.name).content
    ELSE 0

\* C10: two media objects of one run whose sources are two different files
\* with the same base name get two different stored paths, each the path of
\* a copy of its own source, and the folder never holds two files of a name.
C10_CollisionSafe ==
    /\ \A f, g \in imported : f.name = g.name => f = g
    /\ pc = "done" =>
         \A i, j \in 1..Len(file.doc.media) :
            LET a == file.doc.media[i]
                b == file.doc.media[j]
            IN  (/\ i # j
                 /\ SourceOnDisk(a) /\ SourceOnDisk(b)
                 /\ a.src # b.src
                 /\ Basename(a.src) = Basename(b.src))
                => /\ MediaRow(a).path # MediaRow(b).path
                   /\ ContentAt(MediaRow(a).path) = FileAt(disk, a.src).content
                   /\ ContentAt(MediaRow(b).path) = FileAt(disk, b.src).content

-----------------------------------------------------------------------------
(* Person.has_local_modifications *)

\* time is counted in ticks, TicksPerSecond of them to the second
TicksPerSecond == 2
MaxTick == 7
NoTime == -1

\* timedelta(seconds=1), models.py line 93
ToleranceSeconds == 1

\* a faulty variant, for comparison: a difference equal to the tolerance counts as a modification
HasLocalModifications_AtLeast(p) ==
    IF p.gramps_last_updated = NoTime THEN "True"
    ELSE IF p.updated_at = NoTime THEN "False"
    ELSE IF p.updated_at - p.gramps_last_updated >= ToleranceSeconds * TicksPerSecond
         THEN "True" ELSE "False"

\* models.py lines 78-93
HasLocalModifications(p) ==
    IF p.gramps_last_updated = NoTime THEN "True"
    ELSE IF p.updated_at = NoTime THEN "False"
    ELSE IF p.updated_at - p.gramps_last_updated > ToleranceSeconds * TicksPerSecond
         THEN "True" ELSE "False"

InitLocalMod ==
    /\ file = GzDoc(EmptyDoc) /\ pc = "idle" /\ err = "" /\ mem = EmptyMem
    /\ db = EmptyDb /\ db0 = EmptyDb /\ prev = [pc |-> "none", same |-> FALSE]
    /\ disk = {} /\ imported = {} /\ reported = NoReport /\ saves = {}
    /\ dateval = NoDateval
    /\ scratch = "none"
    /\ batch = NoBatch /\ runs = <<>>
    /\ lm \in [updated_at : {NoTime} \cup 0..MaxTick,
               gramps_last_updated : {NoTime} \cup 0..MaxTick,
               result : {"unset"}]

\* a call of person.has_local_modifications()
HasLocalModificationsCall ==
    /\ lm.result = "unset"
    /\ lm' = [lm EXCEPT !.result = HasLocalModifications(lm)]
    /\ UNCHANGED <<file, pc, err, mem, db, db0, prev, disk, imported, reported, saves, dateval, scratch, batch, runs>>

SpecLocalMod == InitLocalMod /\ [][HasLocalModificationsCall]_vars

-----------------------------------------------------------------------------
(* The media set of a person across imports *)

\* one person and two media objects without file element; the person refers
\* to any list of at most two of "m1", "m2" and "mx", the handle of no object
MediaSetDocs ==
    { [EmptyDoc EXCEPT
          !.people = << PersonEl("h1", "I1", "Ann", <<>>, orf, <<>>) >>,
          !.media  = << MediaEl("m1", "M1", NoFile), MediaEl("m2", "M2", NoFile) >>]
      : orf \in SeqsUpTo({"m1", "m2", "mx"}, 2) }

MediaSetFiles == {GzDoc(doc) : doc \in MediaSetDocs}

InitMediaSet == InitRun(MediaSetFiles, {}, {})
NextMediaSet == Run \/ RerunOn(MediaSetFiles)
SpecMediaSet == InitMediaSet /\ [][NextMediaSet]_vars

\* the pks of the media rows the objrefs of a person element name
NamedMedia(doc, el) ==
    { RowIndex(db.media, doc.media[i].id, 1) :
        i \in {k \in 1..Len(doc.media) : doc.media[k].handle \in Range(el.objrefs)} }

\* person.media.all() of the row with primary key pk
MediaOf(d, pk) == {x[2] : x \in {y \in d.pmedia : y[1] = pk}}

\* C11: after an import the media set of every person of the document is
\* exactly the set of media its objrefs name, the empty set when it has no
\* objref any more.
C11_MediaSetReplaced ==
    pc = "done" =>
        \A i \in 1..Len(file.doc.people) :
            LET el == file.doc.people[i] IN
            MediaOf(db, RowIndex(db.person, PersonId(el.handle, el), 1))
                = NamedMedia(file.doc, el)

-----------------------------------------------------------------------------
(* The link stages on an unchanged re-import *)

\* two people, a family, two events and a note; each person may refer to
\* the first event and to the note, the family and each event to the note
LinkDocs ==
    { [EmptyDoc EXCEPT
          !.people   = << PersonEl("h1", "I1", "Ann", e1, <<>>, n1),
                          PersonEl("h2", "I2", "Bob", e2, <<>>, n2) >>,
          !.families = << FamilyEl("f1", "F1", "h1", "h2", <<>>, nf) >>,
          !.events   = << EventEl("e1", "E1", "Birth", 1, None, n3),
                          EventEl("e2", "E2", "Death", 2, None, n4) >>,
          !.notes    = << NoteEl("n1", "N1", "text") >>]
      : e1 \in {<<>>, <<"e1">>}, e2 \in {<<>>, <<"e1">>},
        n1 \in {<<>>, <<"n1">>}, n2 \in {<<>>, <<"n1">>},
        nf \in {<<>>, <<"n1">>},
        n3 \in {<<>>, <<"n1">>}, n4 \in {<<>>, <<"n1">>} }

LinkFiles == {GzDoc(doc) : doc \in LinkDocs}

InitLinks == InitRun(LinkFiles, {}, {})
NextLinks == Run \/ RerunSame
SpecLinks == InitLinks /\ [][NextLinks]_vars

\* C12: the second import of an unchanged document saves no Event.person,
\* Note.person, Note.family or Note.event.
C12_LinkWriteFree == SecondRunDone => saves = {}

-----------------------------------------------------------------------------
(* Fields owned by the import and fields it leaves alone *)

\* one record of each kind, all linked; the place name, the first name, the
\* father, the event date and the note text differ between documents
OwnedDocs ==
    { [places   |-> << PlaceEl("pl", "P1", name) >>,
       people   |-> << PersonEl("h1", "I1", first, <<"e1">>, <<"m1">>, <<"n1">>) >>,
       families |-> << FamilyEl("f1", "F1", fa, None, <<"h1">>, <<"n1">>) >>,
       events   |-> << EventEl("e1", "E1", "Birth", date, "P1", <<"n1">>) >>,
       notes    |-> << NoteEl("n1", "N1", text) >>,
       media    |-> << MediaEl("m1", "M1", NoFile) >>]
      : name \in {"Paris", "Lyon"}, first \in {"Ann", "Anna"},
        fa \in {None, "h1"}, date \in {1, 2}, text \in {"a", "b"} }

OwnedFiles == {GzDoc(doc) : doc \in OwnedDocs}

\* an edit in the admin site between two imports: the coordinates of a place
\* or the family of an event are set (admin.py, PlaceAdmin and EventAdmin)
AdminEdit ==
    /\ pc = "done"
    /\ \/ \E i \in 1..Len(db.place) :
             /\ db.place[i].lat = Null
             /\ db' = [db EXCEPT !.place[i].lat = 1, !.place[i].lon = 1]
       \/ \E i \in 1..Len(db.event), f \in 1..Len(db.family) :
             /\ db.event[i].family = Null
             /\ db' = [db EXCEPT !.event[i].family = f]
    /\ UNCHANGED <<file, pc, err, mem, db0, prev, disk, imported, reported, lm, saves, dateval, scratch, batch, runs>>

InitOwned == InitRun(OwnedFiles, {}, {})
NextOwned == Run \/ RerunOn(OwnedFiles) \/ AdminEdit
SpecOwned == InitOwned /\ [][NextOwned]_vars

\* every row of old is in new with the fields named in fields unchanged
Kept(old, new, fields) ==
    /\ Len(new) >= Len(old)
    /\ \A i \in 1..Len(old) : \A f \in fields : new[i][f] = old[i][f]

\* the row that the element el of the document reconciles to
RowOf(rows, el) == rows[RowIndex(rows, el.id, 1)]

\* C13: a reconciliation stage leaves the fields outside its defaults as
\* they were on every row that existed, and the fields of the defaults hold
\* the values of the document whether the row was created or updated.
C13_OwnedFieldsOnly ==
    [][ LET doc == file.doc IN
        /\ PlacesStep =>
             /\ Kept(db.place, db'.place, {"gid", "lat", "lon"})
             /\ RowOf(db'.place, doc.places[1]).name = doc.places[1].name
        /\ PeopleStep =>
             /\ Kept(db.person, db'.person, {"gid", "birth", "death", "deceased"})
             /\ db'.pmedia = db.pmedia
             /\ RowOf(db'.person, doc.people[1]).first = doc.people[1].first
        /\ FamiliesStep =>
             /\ Kept(db.family, db'.family, {"gid"})
             /\ RowOf(db'.family, doc.families[1]).father
                  = IF doc.families[1].father = None THEN Null
                    ELSE PersonPk(doc, doc.families[1].father)
        /\ EventsStep =>
             LET c == CreateEventsFrom(db, mem.events, <<>>, mem.places, 1).db IN
             /\ Kept(db.event, c.event, {"gid", "person", "family"})
             /\ Kept(db.event, db'.event, {"gid", "family"})
             /\ RowOf(db'.event, doc.events[1]).date = doc.events[1].date
             /\ RowOf(db'.event, doc.events[1]).type = EventType(doc.events[1].type)
        /\ NotesStep =>
             /\ Kept(db.note, db'.note, {"gid", "person", "family", "event"})
             /\ RowOf(db'.note, doc.notes[1]).text = doc.notes[1].text
      ]_vars

\* a re-import has rewritten the first name of a person whose birth date
\* an earlier import derived, and the place whose coordinates were edited
C13_Witness ==
    /\ pc = "families"
    /\ prev.pc = "done"
    /\ db0.person # <<>>
    /\ db.person[1].first # db0.person[1].first
    /\ db.person[1].birth # Null
    /\ db.person[1].birth = db0.person[1].birth
    /\ db.place[1].name # db0.place[1].name
    /\ db.place[1].lat # Null
    /\ <<1, 1>> \in db.pmedia

-----------------------------------------------------------------------------
(* External ids *)

\* two records of each kind under different handles; the second record has
\* the id of the first or one of its own (the second person possibly none);
\* the second event follows the second place, the second family, note and
\* media object go together
SameIdDocs ==
    { [places   |-> << PlaceEl("pl", "P1", "Paris"), PlaceEl("p2", pid, "Lyon") >>,
       people   |-> << PersonEl("h1", "I1", "Ann", <<"e1">>, <<>>, <<>>),
                       PersonEl("h2", iid, "Bob", <<"e2">>, <<>>, <<>>) >>,
       families |-> << FamilyEl("f1", "F1", "h1", None, <<"h2">>, <<>>),
                       FamilyEl("f2", IF same THEN "F1" ELSE "F2", "h2", None,
                                <<"h1">>, <<>>) >>,
       events   |-> << EventEl("e1", "E1", "Birth", 1, None, <<>>),
                       EventEl("e2", IF pid = "P1" THEN "E1" ELSE "E2", "Death",
                               2, None, <<>>) >>,
       notes    |-> << NoteEl("n1", "N1", "a"),
                       NoteEl("n2", IF same THEN "N1" ELSE "N2", "b") >>,
       media    |-> << MediaEl("m1", "M1", NoFile),
                       MediaEl("m2", IF same THEN "M1" ELSE "M2", NoFile) >>]
      : pid \in {"P1", "P2"}, iid \in {"I1", "I2", None}, same \in BOOLEAN }

SameIdFiles == {GzDoc(doc) : doc \in SameIdDocs}

InitSameId == InitRun(SameIdFiles, {}, {})
NextSameId == Run \/ RerunOn(SameIdFiles)
SpecSameId == InitSameId /\ [][NextSameId]_vars

\* the model classes with a gramps_id
Kinds == {"place", "person", "family", "event", "note", "media"}

\* unique=True on gramps_id: no two rows of a kind with one external id
UniqueIds(d) ==
    \A k \in Kinds : \A i, j \in 1..Len(d[k]) : d[k][i].gid = d[k][j].gid => i = j

\* the elements of the document of one kind
ElementsOf(doc, k) ==
    CASE k = "place"  -> doc.places
      [] k = "person" -> doc.people
      [] k = "family" -> doc.families
      [] k = "event"  -> doc.events
      [] k = "note"   -> doc.notes
      [] k = "media"  -> doc.media

\* C14: in every state a kind has at most one row per external id, no step
\* changes the external id of a row, and after an import two records of the
\* document with one id share one row.
C14_ExternalIdUnique ==
    /\ [](UniqueIds(db))
    /\ [](pc = "done" =>
            \A k \in Kinds : \A id \in IdsOf(ElementsOf(file.doc, k)) :
               Cardinality({i \in 1..Len(db[k]) : db[k][i].gid = id}) = 1)
    /\ [][\A k \in Kinds : Kept(db[k], db'[k], {"gid"})]_vars

\* two person records with the id I1 under the handles h1 and h2 have been
\* imported into one row
C14_Witness ==
    /\ pc = "done"
    /\ file.doc.people[1].id = file.doc.people[2].id
    /\ file.doc.people[1].handle # file.doc.people[2].handle
    /\ file.doc.events[1].id = file.doc.events[2].id
    /\ Len(db.person) = 1
    /\ Len(db.event) = 1

-----------------------------------------------------------------------------
(* Rows of records that a later document no longer holds *)

\* any one or both of two people, any of two families (each with one of the
\* people as its child), one media object the first person may refer to
AbsentDocs ==
    { [EmptyDoc EXCEPT
          !.people   = people,
          !.families = families,
          !.media    = << MediaEl("m1", "M1", NoFile) >>]
      : people \in { << PersonEl("h1", "I1", "Ann", <<>>, orf, <<>>) >> : orf \in {<<>>, <<"m1">>} }
                   \cup { << PersonEl("h2", "I2", "Bob", <<>>, <<"m1">>, <<>>) >> }
                   \cup { << PersonEl("h1", "I1", "Ann", <<>>, <<"mx">>, <<>>),
                             PersonEl("h2", "I2", "Bob", <<>>, <<"m1">>, <<>>) >> },
        families \in { <<>>,
                       << FamilyEl("f1", "F1", None, None, <<"h1">>, <<>>) >>,
                       << FamilyEl("f2", "F2", None, None, <<"h2">>, <<>>) >>,
                       << FamilyEl("f1", "F1", None, None, <<"h1">>, <<>>),
                          FamilyEl("f2", "F2", None, None, <<"h2">>, <<>>) >> } }

AbsentFiles == {GzDoc(doc) : doc \in AbsentDocs}

InitAbsent == InitRun(AbsentFiles, {}, {})
NextAbsent == Run \/ RerunOn(AbsentFiles)
SpecAbsent == InitAbsent /\ [][NextAbsent]_vars

\* the external ids the people of the document are reconciled under
PersonIdsOf(doc) == {PersonId(doc.people[i].handle, doc.people[i]) : i \in 1..Len(doc.people)}

\* C15: no step of an import removes a Place, Person, Family, Event, Note or
\* Media row; a FamilyChild row that disappears belongs to a family of the
\* document, a person-media pair that disappears to a person of the document.
C15_NonDestructive ==
    [][ /\ \A k \in Kinds : Kept(db[k], db'[k], {"gid"})
        /\ \A r \in db.child \ db'.child :
              db.family[r.family].gid \in IdsOf(file.doc.families)
        /\ \A x \in db.pmedia \ db'.pmedia :
              db.person[x[1]].gid \in PersonIdsOf(file.doc)
      ]_vars

\* a document without Ann and without family F2 has been imported over a
\* store that holds both: Ann's row with its media and F2's child row are
\* still there, the child row of F1 is gone
C15_Witness ==
    /\ pc = "done"
    /\ prev.pc = "done"
    /\ "I1" \notin PersonIdsOf(file.doc)
    /\ IdsOf(file.doc.families) = {"F1"}
    /\ RowIndex(db.person, "I1", 1) # 0
    /\ RowIndex(db.family, "F2", 1) # 0
    /\ ChildRows(db0, RowIndex(db.family, "F1", 1)) # {}
    /\ ChildRows(db, RowIndex(db.family, "F1", 1)) = {}
    /\ ChildRows(db, RowIndex(db.family, "F2", 1)) # {}
    /\ MediaOf(db, RowIndex(db.person, "I1", 1)) # {}

-----------------------------------------------------------------------------
(* Gender and the change attribute of a person *)

GenderTexts == {None, "", "M", "f", " F ", "u", "x", "male", " "}
ChangeTexts == {None, "", "1", " 1 ", "2", "abc", "999999999999",
                "99999999999999999999"}

\* one person with any gender text and any change text
PersonFieldDocs ==
    { [EmptyDoc EXCEPT
          !.people = << [PersonEl("h1", "I1", "Ann", <<>>, <<>>, <<>>)
                           EXCEPT !.gender = g, !.change = c] >>]
      : g \in GenderTexts, c \in ChangeTexts }

PersonFieldFiles == {GzDoc(doc) : doc \in PersonFieldDocs}

InitPersonFields == InitRun(PersonFieldFiles, {}, {})
NextPersonFields == Run \/ RerunOn(PersonFieldFiles)
SpecPersonFields == InitPersonFields /\ [][NextPersonFields]_vars

\* the people stage of the current run has run to its end
PeopleReconciled == pc = "families" \/ FamiliesReconciled

\* C16: after the people stage the gramps_last_updated of every person of
\* the document is set: to the epoch second of the change attribute when it
\* has one that reads as a number of seconds, to the time of the parse for
\* every other change text and for none; no change text ends the run.
C16_LastSynchronized ==
    /\ pc # "raised"
    /\ PeopleReconciled =>
         \A i \in 1..Len(file.doc.people) :
            LET el  == file.doc.people[i]
                row == RowOf(db.person, el)
            IN  /\ row.gramps_last_updated # NoInstant
                /\ row.gramps_last_updated # WriteNow
                /\ el.change \in {"1", " 1 "} => row.gramps_last_updated = Instant(1)
                /\ el.change = "2" => row.gramps_last_updated = Instant(2)
                /\ el.change \notin {"1", " 1 ", "2"}
                      => row.gramps_last_updated = ParseNow

\* the three codes of GENDER_CHOICES
GenderCodes == {"M", "F", "U"}

\* the code a gender text stands for: the text without the blanks around it
\* and in capitals when that is one of the codes, U otherwise
CodeOf(text) ==
    CASE text \in {"M", "m"}   -> "M"
      [] text \in {"f", " F "} -> "F"
      [] OTHER -> "U"

\* C20: the gender of every person is one of M, F, U, in the parsed people
\* and in the rows written from them: the code that the text spells, and U
\* for every other text, an empty element and no element.
C20_GenderClosed ==
    /\ pc \notin {"start", "parse", "raised"} =>
         \A i \in 1..Len(file.doc.people) :
            /\ mem.people[i].v.el.gender \in GenderCodes
            /\ mem.people[i].v.el.gender = CodeOf(file.doc.people[i].gender)
    /\ PeopleReconciled =>
         \A i \in 1..Len(file.doc.people) :
            LET el  == file.doc.people[i]
                row == RowOf(db.person, el)
            IN  /\ row.gender \in GenderCodes
                /\ row.gender = CodeOf(el.gender)

-----------------------------------------------------------------------------
(* Derived fields at the end of a run *)

\* the events of the store linked to the person pk, of one type
EventsOf(d, pk, type) ==
    {i \in 1..Len(d.event) : d.event[i].person = pk /\ d.event[i].type = type}

\* _update_dates of the current run has finished
DatesUpdated == pc \in {"report", "done"}

\* C17: when _update_dates has finished, a person with a dated birth event
\* has the date of such an event as birth_date, a person with a death event
\* is deceased, and has the date of a dated death event as death_date.
C17_DerivedFields ==
    DatesUpdated =>
        \A pk \in 1..Len(db.person) :
            LET births == {i \in EventsOf(db, pk, "birth") : db.event[i].date # Null}
                deaths == EventsOf(db, pk, "death")
                dated  == {i \in deaths : db.event[i].date # Null}
                p      == db.person[pk]
            IN  /\ births # {} => p.birth \in {db.event[i].date : i \in births}
                /\ deaths # {} => p.deceased
                /\ dated  # {} => p.death \in {db.event[i].date : i \in dated}

-----------------------------------------------------------------------------
(* The date parser *)

\* the texts of 4 positions, each position from its own set of characters
Texts4(A, B, C, D) == {<<a, b, c, d>> : a \in A, b \in B, c \in C, d \in D}

\* the val attributes tried: every text of up to 4 characters over digits, a
\* dash and a letter, every text of 7 characters over three digits and a
\* dash, and the texts of 10 characters with a digit or a dash where a full
\* date has its dashes
DatevalTexts ==
    SeqsUpTo({"0", "1", "9", "-", "x"}, 4)
    \cup [1..7 -> {"0", "1", "2", "-"}]
    \cup { y \o <<s1>> \o m \o <<s2>> \o d :
             y  \in Texts4({"0", "2"}, {"0", "2"}, {"0", "2"}, {"0", "1", "4"}),
             s1 \in {"-", "0"},
             m  \in {<<a, b>> : a \in {"0", "1"}, b \in {"0", "1", "2", "3"}},
             s2 \in {"-", "1"},
             d  \in {<<a, b>> : a \in {"0", "2", "3"}, b \in {"0", "1", "8", "9"}} }

InitDateval ==
    /\ file = GzDoc(EmptyDoc) /\ pc = "idle" /\ err = "" /\ mem = EmptyMem
    /\ db = EmptyDb /\ db0 = EmptyDb /\ prev = [pc |-> "none", same |-> FALSE]
    /\ disk = {} /\ imported = {} /\ reported = NoReport /\ saves = {}
    /\ lm = NoLm /\ scratch = "none" /\ batch = NoBatch /\ runs = <<>>
    /\ \E present \in BOOLEAN, t \in DatevalTexts :
          /\ present \/ t = <<>>
          /\ dateval = [present |-> present, val |-> t, parsed |-> FALSE,
                        date |-> NoDate]

\* the date of one event element is extracted
ParseDateCall ==
    /\ ~dateval.parsed
    /\ pc = "idle"
    /\ dateval' = [dateval EXCEPT !.parsed = TRUE,
                                  !.date = ParseDate(dateval.present, dateval.val)]
    /\ UNCHANGED <<file, pc, err, mem, db, db0, prev, disk, imported, reported, lm, saves, scratch, batch, runs>>

SpecDateval == InitDateval /\ [][ParseDateCall]_vars

\* the three shapes of the table
IsYear(t)      == Len(t) = 4 /\ IsDigit(t)
IsYearMonth(t) == Len(t) = 7 /\ t[5] = "-" /\ IsDigit(SubSeq(t, 1, 4))
                             /\ IsDigit(SubSeq(t, 6, 7))
IsFullDate(t)  == Len(t) = 10 /\ t[5] = "-" /\ t[8] = "-" /\ IsDigit(SubSeq(t, 1, 4))
                              /\ IsDigit(SubSeq(t, 6, 7)) /\ IsDigit(SubSeq(t, 9, 10))

-----------------------------------------------------------------------------
(* Event types *)

\* the texts of a type element: the six names in several letter cases, other
\* texts, an empty element and no element
TypeTexts ==
    {None, "", "birth", "Birth", "BIRTH", "death", "Death", "marriage",
     "MARRIAGE", "dIvOrCe", "Baptism", "BURIAL", "Census", "census", "Birth ",
     "BIRTHS", " "}

\* one person and two events: the first of any type text, the second of
\* four of them
TypeDocs ==
    { [EmptyDoc EXCEPT
          !.people = << PersonEl("h1", "I1", "Ann", <<"e1">>, <<>>, <<>>) >>,
          !.events = << EventEl("e1", "E1", t1, 1, None, <<>>),
                        EventEl("e2", "E2", t2, 0, None, <<>>) >>]
      : t1 \in TypeTexts, t2 \in {None, "birth", "BURIAL", "Census"} }

TypeFiles == {GzDoc(doc) : doc \in TypeDocs}

InitTypes == InitRun(TypeFiles, {}, {})
NextTypes == Run \/ RerunOn(TypeFiles)
SpecTypes == InitTypes /\ [][NextTypes]_vars

\* the texts that are the name in some letter case
Spellings(name) ==
    CASE name = "birth"    -> {"birth", "Birth", "BIRTH"}
      [] name = "death"    -> {"death", "Death"}
      [] name = "marriage" -> {"marriage", "MARRIAGE"}
      [] name = "divorce"  -> {"dIvOrCe"}
      [] name = "baptism"  -> {"Baptism"}
      [] name = "burial"   -> {"BURIAL"}

\* the type the table gives to a text
Mapped(text) ==
    IF \E name \in KnownTypes : text \in Spellings(name)
    THEN CHOOSE name \in KnownTypes : text \in Spellings(name)
    ELSE "unknown"

-----------------------------------------------------------------------------
(* The order of the stages of a run *)

\* every item of a dictionary of the run that has an id holds its row
Reconciled(dict) ==
    \A i \in 1..Len(dict) : Falsy(dict[i].v.el.id) \/ dict[i].v.obj # 0

\* every media object of the document that has an id has its row
MediaReconciled(d) ==
    \A i \in 1..Len(file.doc.media) :
       Falsy(file.doc.media[i].id) \/ RowIndex(d.media, file.doc.media[i].id, 1) # 0

\* every event that a person of the run refers to is linked to a person
EventsLinked(d) ==
    \A i \in 1..Len(mem.people) :
       \A j \in 1..Len(mem.people[i].v.el.eventrefs) :
          LET ref == mem.people[i].v.el.eventrefs[j] IN
          (Has(mem.events, ref) /\ Get(mem.events, ref).obj # 0)
             => d.event[Get(mem.events, ref).obj].person # Null

\* the links of the store, kind by kind, row by row
ParentLinks(d) ==
    [i \in 1..Len(d.family) |-> <<d.family[i].father, d.family[i].mother>>]
EventPlaces(d)  == [i \in 1..Len(d.event) |-> <<d.event[i].place>>]
EventPersons(d) == [i \in 1..Len(d.event) |-> <<d.event[i].person>>]
NoteLinks(d) ==
    [i \in 1..Len(d.note) |-> <<d.note[i].person, d.note[i].family, d.note[i].event>>]
DerivedFields(d) ==
    [i \in 1..Len(d.person) |->
        <<d.person[i].birth, d.person[i].death, d.person[i].deceased>>]

\* a step has written one of the values new: it differs from the value the
\* row had in old, or from the value blank of a row that was not there
Written(old, new, blank) ==
    \E i \in 1..Len(new) : new[i] # (IF i <= Len(old) THEN old[i] ELSE blank)

\* C21: no step writes to the store before the parse has ended; a step that
\* writes parent or child links finds the people reconciled, one that writes
\* event places the places, one that writes event-person links the people
\* and leaves the events reconciled, one that writes note links finds notes,
\* people, families and events reconciled, one that writes person-media
\* links finds the people reconciled and leaves the media reconciled; the
\* step that writes the derived fields finds every event-person link of the
\* run applied.
C21_StageOrder ==
    [][ /\ db' # db => pc \notin {"start", "parse"}
        /\ (\/ Written(ParentLinks(db), ParentLinks(db'), <<Null, Null>>)
            \/ db'.child # db.child)
              => Reconciled(mem.people)
        /\ Written(EventPlaces(db), EventPlaces(db'), <<Null>>)
              => Reconciled(mem.places)
        /\ Written(EventPersons(db), EventPersons(db'), <<Null>>)
              => Reconciled(mem.people) /\ Reconciled(mem'.events)
        /\ Written(NoteLinks(db), NoteLinks(db'), <<Null, Null, Null>>)
              => /\ Reconciled(mem.notes) /\ Reconciled(mem.people)
                 /\ Reconciled(mem.families) /\ Reconciled(mem.events)
        /\ db'.pmedia # db.pmedia
              => Reconciled(mem.people) /\ MediaReconciled(db')
        /\ Written(DerivedFields(db), DerivedFields(db'), <<Null, Null, FALSE>>)
              => /\ pc = "dates"
                 /\ Reconciled(mem.people) /\ Reconciled(mem.events)
                 /\ EventsLinked(db)
      ]_vars

\* a first run has ended and has written a link of every kind and a derived
\* field
C21_Witness ==
    /\ pc = "done" /\ prev.pc = "none"
    /\ db.family[1].father # Null
    /\ db.child # {}
    /\ db.event[1].place # Null
    /\ db.event[1].person # Null
    /\ db.note[1].person # Null
    /\ db.pmedia # {}
    /\ db.person[1].birth # Null

-----------------------------------------------------------------------------
(* A run that is aborted and started again *)

\* _update_dates stopped after the first n events of its loop
UpdateDatesUpTo(d, n) ==
    [UpdateDatesFrom([d EXCEPT !.event = SubSeq(d.event, 1, n)], {}, 1)
        EXCEPT !.event = d.event]

\* the process is killed between two stages of handle (lines 52-75), in
\* the first run: the writes made so far stay, each having been committed
\* on its own
AbortBetweenStages ==
    /\ prev.pc = "none"
    /\ pc \in {"people", "families", "events", "notes", "associate", "media",
               "dates", "report"}
    /\ pc' = "aborted"
    /\ UNCHANGED <<file, err, mem, db, db0, prev, disk, imported, reported, lm, saves, dateval, scratch, batch, runs>>

\* the process is killed inside the loop of _update_dates, after n events
AbortInDates ==
    /\ prev.pc = "none"
    /\ pc = "dates"
    /\ \E n \in 0..Len(db.event) : db' = UpdateDatesUpTo(db, n)
    /\ pc' = "aborted"
    /\ UNCHANGED <<file, err, mem, db0, prev, disk, imported, reported, lm, saves, dateval, scratch, batch, runs>>

\* the command is run again on the same file after an aborted run; db0 stays
\* the store from before the aborted run
RerunAborted ==
    /\ pc = "aborted"
    /\ prev' = [pc |-> "aborted", same |-> TRUE]
    /\ pc' = "start"
    /\ err' = ""
    /\ mem' = EmptyMem
    /\ reported' = NoReport
    /\ saves' = {}
    /\ scratch' = "none"
    /\ UNCHANGED <<file, db, db0, disk, imported, lm, dateval, batch, runs>>

InitAbort == InitRun(DateFiles, {}, {})
NextAbort == Run \/ AbortBetweenStages \/ AbortInDates \/ RerunAborted
SpecAbort == InitAbort /\ [][NextAbort]_vars

\* lines 50-75: the store after one uninterrupted run of handle on the file
\* f, from the store d and the managed folder imp, when no stage raises
Uninterrupted(d, dk, imp, f) ==
    LET m0 == ParseXml(f).mem
        a  == ImportPlaces(d, m0.places)
        m1 == [m0 EXCEPT !.places = a.dict]
        b  == ImportPeople(a.db, m1.people)
        m2 == [m1 EXCEPT !.people = b.dict]
        c  == ImportFamilies(b.db, m2.families, m2.people)
        m3 == [m2 EXCEPT !.families = c.dict]
        e  == ImportEvents(c.db, m3.events, m3.people, m3.places)
        m4 == [m3 EXCEPT !.events = e.dict]
        n  == ImportNotes(e.db, m4.notes)
        m5 == [m4 EXCEPT !.notes = n.dict]
        g  == AssociateNotes(n.db, m5)
        h  == ImportMedia(g.db, dk, imp, m5.media, m5.people)
    IN  UpdateDates(h.db)

\* C22: when a run was aborted after some of its writes and the same file
\* has then been imported to the end, the store is the one that a single
\* uninterrupted import of the file gives from the store the aborted run
\* started from.
C22_AbortRerun ==
    (pc = "done" /\ prev.pc = "aborted")
       => db = Uninterrupted(db0, disk, {}, file)

-----------------------------------------------------------------------------
(* The temporary directory of an archive *)

\* every shape of input, and archives whose stream ends early
ScratchFiles ==
    FormatFiles
    \cup { [File(TRUE, TRUE, TRUE, member, TRUE, doc) EXCEPT !.truncated = TRUE]
           : member \in {"none", "gz"}, doc \in FormatDocs }

InitScratch == InitRun(ScratchFiles, {}, {})
NextScratch == Run \/ RerunOn(ScratchFiles)
SpecScratch == InitScratch /\ [][NextScratch]_vars

\* C23: when _parse_xml has returned or raised, the temporary directory made
\* for the run is gone: after a parse that succeeded, after one that failed
\* and after an error in the extraction of the archive.
C23_ScratchRemoved ==
    pc \notin {"start", "parse"} => scratch # "left"

-----------------------------------------------------------------------------
(* GrampsImport.save *)

MaxSaves == 3

\* GrampsImport.save, lines 231-243: super().save() writes the record, then
\* call_command runs handle on the stored file when the record has one; an
\* exception of the run is logged and raised again, which leaves the run
\* in "raised".  hasFile and f are the record's gramps_file.
GrampsImportSave ==
    /\ pc \in {"idle", "done", "raised"}
    /\ batch.saves < MaxSaves
    /\ \E hasFile \in (IF batch.created THEN {batch.hasFile} ELSE BOOLEAN) :
          /\ batch' = [created |-> TRUE, hasFile |-> hasFile,
                       saves   |-> batch.saves + 1,
                       calls   |-> batch.calls + (IF hasFile THEN 1 ELSE 0)]
          /\ IF hasFile
             THEN /\ pc' = "start" /\ err' = "" /\ mem' = EmptyMem
                  /\ db0' = db /\ reported' = NoReport /\ saves' = {}
                  /\ scratch' = "none"
                  /\ prev' = [pc |-> pc, same |-> batch.created]
             ELSE UNCHANGED <<pc, err, mem, db0, reported, saves, scratch, prev, runs>>
    /\ UNCHANGED <<file, db, disk, imported, lm, dateval, runs>>

\* no record yet, an empty store, no run
InitBatch ==
    /\ file \in FormatFiles
    /\ pc = "idle" /\ err = "" /\ mem = EmptyMem
    /\ db = EmptyDb /\ db0 = EmptyDb /\ prev = [pc |-> "none", same |-> FALSE]
    /\ disk = {} /\ imported = {} /\ reported = NoReport /\ saves = {}
    /\ lm = NoLm /\ dateval = NoDateval /\ scratch = "none" /\ batch = NoBatch /\ runs = <<>>
NextBatch == Run \/ GrampsImportSave
SpecBatch == InitBatch /\ [][NextBatch]_vars


\* C24: the save that creates a GrampsImport with a file writes the record
\* and starts the import once on its file; a failure of the run is raised to
\* the caller; a later save of the record starts no further import.
C24_ImportOnCreate ==
    /\ batch.created => batch.calls = (IF batch.hasFile THEN 1 ELSE 0)
    /\ batch.calls > 0 => pc # "idle"

-----------------------------------------------------------------------------
(* The place of an event *)

\* the places of the document with the handle h
PlacesWithHandle(doc, h) ==
    {i \in 1..Len(doc.places) : doc.places[i].handle = h}

\* C25: an event whose place link is the handle of a place record of the
\* document, the handle not being the record's id, has the Place row of
\* that record as its place; its place is null only when the link is absent
\* or is no record's handle.
C25_PlaceByHandle ==
    pc = "done" =>
       \A e \in 1..Len(file.doc.events) :
          LET ev  == file.doc.events[e]
              row == RowOf(db.event, ev)
          IN  /\ \A i \in PlacesWithHandle(file.doc, ev.place) :
                    file.doc.places[i].handle # file.doc.places[i].id
                       => row.place = RowIndex(db.place, file.doc.places[i].id, 1)
              /\ row.place = Null
                    => ev.place = None \/ PlacesWithHandle(file.doc, ev.place) = {}

-----------------------------------------------------------------------------
(* The attachment of a note *)

\* how many of the three references of a note row are set
Attachments(n) ==
    Cardinality({f \in {"person", "family", "event"} : n[f] # Null})

\* C26: every Note has at most one of its person, family and event
\* references set, also when the document refers to the note from a person
\* and from a family or an event.
C26_NoteSingleAttachment ==
    \A i \in 1..Len(db.note) : Attachments(db.note[i]) <= 1

-----------------------------------------------------------------------------
(* The timestamps an import leaves on a person *)

\* _parse_xml and _import_people on one person, with the clock: change is
\* the change attribute of the record as a time (NoTime when it has none or
\* one that does not read as a time), now the time of the parse, at the
\* time of the save of update_or_create.  gramps_last_updated is the change
\* time, or the time of the parse (lines 174-187, 336-344); updated_at is
\* set by auto_now to the time of the save (models.py line 64).  The record
\* keeps change and now beside the two fields of the person.
ImportPersonAt ==
    /\ pc = "idle"
    /\ lm.result = "unset" /\ lm.updated_at = NoTime
    /\ \E change \in {NoTime} \cup 0..MaxTick, now \in 0..MaxTick, at \in 0..MaxTick :
          /\ change # NoTime => change <= now
          /\ now <= at
          /\ lm' = [updated_at          |-> at,
                    gramps_last_updated |-> IF change = NoTime THEN now ELSE change,
                    result              |-> "unset",
                    change              |-> change,
                    now                 |-> now]
    /\ UNCHANGED <<file, pc, err, mem, db, db0, prev, disk, imported, reported, saves, dateval, scratch, batch, runs>>

\* no person yet
InitClock ==
    /\ file = GzDoc(EmptyDoc) /\ pc = "idle" /\ err = "" /\ mem = EmptyMem
    /\ db = EmptyDb /\ db0 = EmptyDb /\ prev = [pc |-> "none", same |-> FALSE]
    /\ disk = {} /\ imported = {} /\ reported = NoReport /\ saves = {}
    /\ dateval = NoDateval /\ scratch = "none" /\ batch = NoBatch /\ runs = <<>>
    /\ lm = [updated_at |-> NoTime, gramps_last_updated |-> NoTime,
             result |-> "unset", change |-> NoTime, now |-> NoTime]

\* has_local_modifications() is asked of a person that an import wrote
AskAfterImport == lm.updated_at # NoTime /\ HasLocalModificationsCall

NextClock == ImportPersonAt \/ AskAfterImport
SpecClock == InitClock /\ [][NextClock]_vars

\* C27: a person that an import created or updated and that nothing else
\* has written since has has_local_modifications() false, whatever the
\* time between the change of the source record and the import.
C27_NoFalseSignal ==
    lm.result # "unset" => lm.result = "False"

-----------------------------------------------------------------------------
(* Links that the document no longer states *)

\* one person, one family, one event and one note; the person refers to the
\* event or not, and at most one of person, family and event to the note
StaleDocs ==
    { [EmptyDoc EXCEPT
          !.people   = << PersonEl("h1", "I1", "Ann", er, <<>>, n[1]) >>,
          !.families = << FamilyEl("f1", "F1", "h1", None, <<>>, n[2]) >>,
          !.events   = << EventEl("e1", "E1", "Birth", 1, None, n[3]) >>,
          !.notes    = << NoteEl("n1", "N1", "text") >>]
      : er \in {<<>>, <<"e1">>},
        n  \in { <<<<>>, <<>>, <<>>>>, <<<<"n1">>, <<>>, <<>>>>,
                 <<<<>>, <<"n1">>, <<>>>>, <<<<>>, <<>>, <<"n1">>>> } }

StaleFiles == {GzDoc(doc) : doc \in StaleDocs}

InitStale == InitRun(StaleFiles, {}, {})
NextStale == Run \/ RerunOn(StaleFiles)
SpecStale == InitStale /\ [][NextStale]_vars

\* the row of the owner that the document gives to a link: the first element
\* of owners whose references of the kind refs hold the handle h, else null
OwnerIn(rows, owners, refs, h) ==
    LET is == {i \in 1..Len(owners) : h \in Range(owners[i][refs])} IN
    IF is = {} THEN Null
    ELSE RowIndex(rows, owners[CHOOSE i \in is : TRUE].id, 1)

\* C28: after an import the person of every event of the document and the
\* person, family and event of every note of the document are the ones the
\* document states: a link set by an earlier import from a reference that
\* the document no longer holds is null.
C28_LinksFollowDocument ==
    pc = "done" =>
       LET doc == file.doc IN
       /\ \A e \in 1..Len(doc.events) :
             RowOf(db.event, doc.events[e]).person
                = OwnerIn(db.person, doc.people, "eventrefs", doc.events[e].handle)
       /\ \A n \in 1..Len(doc.notes) :
             LET row == RowOf(db.note, doc.notes[n])
                 h   == doc.notes[n].handle
             IN  /\ row.person = OwnerIn(db.person, doc.people, "noterefs", h)
                 /\ row.family = OwnerIn(db.family, doc.families, "noterefs", h)
                 /\ row.event  = OwnerIn(db.event, doc.events, "noterefs", h)

-----------------------------------------------------------------------------
(* A child named twice by one family *)

\* C29: no run is ended by a family whose childref list names one child
\* twice, and the store never holds two FamilyChild rows of one family and
\* one child.
C29_DuplicateChildRef ==
    /\ pc # "raised"
    /\ \A r1 \in db.child : \A r2 \in db.child :
          (r1.family = r2.family /\ r1.child = r2.child) => r1 = r2

-----------------------------------------------------------------------------
(* Two runs at the child rows of one family *)

\* the people dictionary and the store after the people stage and the
\* family row of F1, for a document of three people and the family F1
PeopleOfRuns ==
    ImportPeople(EmptyDb, ParsedDicts([EmptyDoc EXCEPT !.people = ThreePeople]).people)
StoreWithFamily ==
    [PeopleOfRuns.db EXCEPT !.family = << [BlankFamily EXCEPT !.gid = "F1"] >>]

\* the childref lists of the two documents: without repetition, different
ChildLists ==
    {r \in SeqsUpTo({"h1", "h2", "h3"}, MaxChildren) : NoRepeat(r)}

\* both runs have written the family row (lines 366-372) and stand before
\* line 382; pos 0 is before the delete, pos j before the j-th create
InitInterleave ==
    /\ file = GzDoc(EmptyDoc) /\ pc = "idle" /\ err = ""
    /\ mem = [EmptyMem EXCEPT !.people = PeopleOfRuns.dict]
    /\ db = StoreWithFamily /\ db0 = StoreWithFamily
    /\ prev = [pc |-> "none", same |-> FALSE]
    /\ disk = {} /\ imported = {} /\ reported = NoReport /\ saves = {}
    /\ lm = NoLm /\ dateval = NoDateval /\ scratch = "none" /\ batch = NoBatch
    /\ \E a \in ChildLists, b \in ChildLists :
          /\ a # b
          /\ runs = << [refs |-> a, pos |-> 0, exc |-> ""],
                       [refs |-> b, pos |-> 0, exc |-> ""] >>

\* line 382 in the run p: the rows of the family are deleted
DeleteStep(p) ==
    /\ runs[p].pos = 0 /\ runs[p].exc = ""
    /\ db' = [db EXCEPT !.child = DeleteChildren(db.child, 1)]
    /\ runs' = [runs EXCEPT ![p].pos = 1]
    /\ UNCHANGED <<file, pc, err, mem, db0, prev, disk, imported, reported, lm, saves, dateval, scratch, batch>>

\* lines 385-392 in the run p: the next childref gets its row, or the
\* create raises and ends the run
CreateStep(p) ==
    /\ runs[p].exc = ""
    /\ runs[p].pos \in 1..Len(runs[p].refs)
    /\ LET j == runs[p].pos
           r == CreateChildrenFrom(db.child, 1, SubSeq(runs[p].refs, 1, j),
                                   mem.people, j)
       IN  /\ db' = [db EXCEPT !.child = r.rows]
           /\ runs' = [runs EXCEPT ![p].pos = j + 1, ![p].exc = r.exc]
    /\ UNCHANGED <<file, pc, err, mem, db0, prev, disk, imported, reported, lm, saves, dateval, scratch, batch>>

NextInterleave == \E p \in {1, 2} : DeleteStep(p) \/ CreateStep(p)
SpecInterleave == InitInterleave /\ [][NextInterleave]_vars

\* the run p has left the child rows of the family behind it
RunEnded(p) == runs[p].exc # "" \/ runs[p].pos > Len(runs[p].refs)

\* the rows that the childref list refs gives the family
RowsOfList(refs) == CreateChildrenFrom({}, 1, refs, mem.people, 1).rows

\* C30: when two runs whose documents give one family different child lists
\* take their steps in any order, neither run is ended by an exception, and
\* when both have ended the rows of the family are the child list of one
\* of the two documents; no two rows have the same order.
C30_Interleaved ==
    runs # <<>> =>
       /\ \A p \in {1, 2} : runs[p].exc = ""
       /\ (RunEnded(1) /\ RunEnded(2)) =>
             /\ \/ ChildRows(db, 1) = RowsOfList(runs[1].refs)
                \/ ChildRows(db, 1) = RowsOfList(runs[2].refs)
             /\ \A r1 \in db.child : \A r2 \in db.child :
                   r1.order = r2.order => r1 = r2

====
